---- MODULE Spec2Model ----
(***************************************************************************)
(* Clinic medicine inventory (Express + xlsx / lowdb).  The repository     *)
(* holds several iterations of the same application; three spreadsheet     *)
(* iterations and the lowdb iteration are modelled:                        *)
(*   "kisiwani"  src/app.js:271-1370   (usage restricted to clinic C001)   *)
(*   "updated"   src/app.js:1372-2011  (UPDATED_AT, restock on duplicate)  *)
(*   "clinics"   src/unnamed/part_001  (first multi-clinic iteration)      *)
(*   lowdb       src/app.js:1-269      (JSON file behind an in-memory db)  *)
(***************************************************************************)
EXTENDS Integers, Sequences, FiniteSets, TLC

VARIABLES variant, file, disk, req, resp, low

vars == <<variant, file, disk, req, resp, low>>

(***************************************************************************)
(* Bounds of the model.                                                    *)
(***************************************************************************)
MaxMeds == 2
MaxUsers == 2
MaxEvents == 2
MaxStock == 3
MaxItems == 2
MaxInits == 2
MaxLowReqs == 2

Variants == {"kisiwani", "updated", "clinics"}

(***************************************************************************)
(* JavaScript values.  Every column holds text except kiasi, which holds   *)
(* a number; three integers outside the range of quantities stand for the  *)
(* non-numeric contents a kiasi cell or a JavaScript number can have.      *)
(***************************************************************************)
BlankNum == 0 - 100    \* the empty string '' in the kiasi column
TextNum == 0 - 101     \* a non-empty, non-numeric text in the kiasi column
NaN == 0 - 102         \* the JavaScript number NaN

Range(s) == {s[i] : i \in 1..Len(s)}

Min(a, b) == IF a < b THEN a ELSE b

\* v is falsy in column h ('' / 0 / NaN / undefined)
Falsy(h, v) == IF h = "kiasi" THEN v \in {0, BlankNum, NaN} ELSE v = ""

Blank(h) == IF h = "kiasi" THEN BlankNum ELSE ""

\* item[h] || ''
OrBlank(item, h) ==
  IF h \in DOMAIN item /\ ~Falsy(h, item[h]) THEN item[h] ELSE Blank(h)

\* Number(cell) for a stored kiasi cell
ToNumber(v) ==
  IF v = BlankNum THEN 0 ELSE IF v = TextNum THEN NaN ELSE v

\* Number(cell) || 0
NumOr0(v) == IF ToNumber(v) = NaN THEN 0 ELSE ToNumber(v)

\* a + b on JavaScript numbers
JsAdd(a, b) == IF a = NaN \/ b = NaN THEN NaN ELSE a + b

(***************************************************************************)
(* Form fields arrive as text.                                             *)
(***************************************************************************)

\* Number(text)
JsNumber(t) ==
  CASE t = "" -> 0
    [] t = "abc" -> NaN
    [] t = "0" -> 0
    [] t = "-1" -> 0 - 1
    [] t = "1" -> 1
    [] t = "2" -> 2
    [] t = "3" -> 3

\* parseInt(text, 10)
ParseInt(t) == IF t = "" THEN NaN ELSE JsNumber(t)

\* isNaN(text)
IsNaN(t) == JsNumber(t) = NaN

\* String.prototype.trim
Trim(s) == IF s = " " THEN "" ELSE s

\* String.prototype.toLowerCase
ToLowerCase(s) ==
  CASE s = "Panadol" -> "panadol"
    [] s = "PANADOL" -> "panadol"
    [] s = "Asprin" -> "asprin"
    [] s = "Aina" -> "aina"
    [] s = "Asha" -> "asha"
    [] s = "ASHA" -> "asha"
    [] s = "Juma" -> "juma"
    [] OTHER -> s

NowIso == "2024-03-01T08:00:00.000Z"
NowDate == "2024-03-01"

\* new Date(t) is a valid date
ValidDate(t) ==
  t \in {NowIso, NowDate, "2024-03-01T00:00:00.000Z",
         "2024-01-05", "2024-01-05T00:00:00.000Z",
         "2024-04-02", "2024-04-02T00:00:00.000Z"}

\* new Date(t).toISOString() for a valid date
ToISOString(t) ==
  CASE t = NowDate -> "2024-03-01T00:00:00.000Z"
    [] t = "2024-01-05" -> "2024-01-05T00:00:00.000Z"
    [] t = "2024-04-02" -> "2024-04-02T00:00:00.000Z"
    [] OTHER -> t

\* new Date(t).getTime(), counted in hours since 2024-01-01T00:00Z; NaN for
\* an invalid date
GetTime(t) ==
  CASE t \in {"2024-01-05", "2024-01-05T00:00:00.000Z"} -> 96
    [] t \in {NowDate, "2024-03-01T00:00:00.000Z"} -> 1440
    [] t = NowIso -> 1448
    [] t \in {"2024-04-02", "2024-04-02T00:00:00.000Z"} -> 2208
    [] OTHER -> NaN

\* setHours(0, 0, 0, 0) and setHours(23, 59, 59, 999), the process running
\* in UTC; the last hour of the day stands for its last millisecond
StartOfDay(h) == IF h = NaN THEN NaN ELSE (h \div 24) * 24
EndOfDay(h) == IF h = NaN THEN NaN ELSE (h \div 24) * 24 + 23

\* Date.prototype.getDay: 2024-01-01 is a Monday
GetDay(h) == ((h \div 24) + 1) % 7

\* new Date(now.getFullYear(), now.getMonth(), 1) and
\* new Date(now.getFullYear(), now.getMonth() + 1, 0) for a day of 2024
MonthDays == <<31, 29, 31, 30>>
RECURSIVE FirstOfMonth(_, _)
FirstOfMonth(h, m) ==
  IF h \div 24 < MonthDays[m] THEN 0
  ELSE MonthDays[m] * 24 + FirstOfMonth(h - MonthDays[m] * 24, m + 1)

RECURSIVE LastOfMonth(_, _)
LastOfMonth(h, m) ==
  IF h \div 24 < MonthDays[m] THEN (MonthDays[m] - 1) * 24
  ELSE MonthDays[m] * 24 + LastOfMonth(h - MonthDays[m] * 24, m + 1)

\* a >= b and a <= b on dates: false when either is an invalid date
DateGe(a, b) == a # NaN /\ b # NaN /\ a >= b
DateLe(a, b) == a # NaN /\ b # NaN /\ a <= b

\* formatDate: the calendar day in Africa/Nairobi (UTC+3), NaN standing for
\* 'Tarehe haijulikani'
FormatDate(t) == IF GetTime(t) = NaN THEN NaN ELSE (GetTime(t) + 3) \div 24

\* formatTime: the hour in Africa/Nairobi, NaN standing for '--:--'
FormatTime(t) == IF GetTime(t) = NaN THEN NaN ELSE (GetTime(t) + 3) % 24

\* nanoid(): an id that is not in use
IdPool(p) == <<p \o "1", p \o "2", p \o "3", p \o "4", p \o "5", p \o "6">>

NanoId(p, used) ==
  LET pool == IdPool(p)
      i == CHOOSE k \in 1..Len(pool) :
             pool[k] \notin used /\ \A j \in 1..(k - 1) : pool[j] \in used
  IN pool[i]

(***************************************************************************)
(* The xlsx library.  A sheet is its header row and its data rows; a data  *)
(* row maps the header names of its non-empty cells to their values.       *)
(***************************************************************************)
RECURSIVE SetToSeq(_)
SetToSeq(S) ==
  IF S = {} THEN <<>>
  ELSE LET x == CHOOSE y \in S : TRUE IN <<x>> \o SetToSeq(S \ {x})

\* xlsx.utils.aoa_to_sheet([headers])
AoaToSheet(headers) == [hdr |-> headers, rows |-> <<>>]

\* xlsx.utils.json_to_sheet(js, { header }): the given header first, then
\* every other key of the objects as a further column
JsonToSheet(js, header) ==
  LET extra == UNION {DOMAIN js[i] : i \in 1..Len(js)} \ Range(header)
  IN [hdr |-> header \o SetToSeq(extra), rows |-> js]

\* xlsx.utils.sheet_to_json(sheet): first row is the header, blank rows are
\* skipped
SheetToJson(sheet) ==
  SelectSeq(sheet.rows, LAMBDA r : DOMAIN r # {})

\* the cell of column src shown under key
Coerce(key, src, v) ==
  IF (key = "kiasi") = (src = "kiasi") THEN v
  ELSE IF key = "kiasi" THEN TextNum ELSE "#"

\* xlsx.utils.sheet_to_json(sheet, { header: headers }): every row of the
\* sheet, the header row included, keyed by position
SheetToJsonHeader(sheet, headers) ==
  LET n == Min(Len(sheet.hdr), Len(headers))
      KeyOf(i) == headers[i]
      At(k) == CHOOSE j \in 1..n : headers[j] = k
      first == [k \in {KeyOf(i) : i \in 1..n} |-> Coerce(k, "", sheet.hdr[At(k)])]
      keyed(r) == [k \in {KeyOf(i) : i \in {j \in 1..n : sheet.hdr[j] \in DOMAIN r}} |->
                     Coerce(k, sheet.hdr[At(k)], r[sheet.hdr[At(k)]])]
      data == IF headers = sheet.hdr THEN sheet.rows
              ELSE [i \in 1..Len(sheet.rows) |-> keyed(sheet.rows[i])]
  IN IF Len(sheet.hdr) = 0 THEN <<>>
     ELSE <<first>> \o SelectSeq(data, LAMBDA r : DOMAIN r # {})

(***************************************************************************)
(* Sheet configuration.                                                    *)
(***************************************************************************)
SheetKeys == {"DAWA", "WATUMIAJI", "MATUMIZI", "CLINICS"}

SHEETS(v) ==
  [DAWA |-> [name |-> "Dawa",
             headers |-> IF v = "clinics" THEN <<"id", "jina", "aina", "kiasi">>
                         ELSE <<"id", "jina", "aina", "kiasi", "UPDATED_AT">>],
   WATUMIAJI |-> [name |-> "Watumiaji",
                  headers |-> <<"id", "jina", "maelezo", "clinicId">>],
   MATUMIZI |-> [name |-> "Matumizi",
                 headers |-> <<"id", "dawaId", "mtumiajiId", "mtumiajiJina",
                               "maelezo", "kiasi", "tarehe", "clinicId">>],
   CLINICS |-> [name |-> "Clinics", headers |-> <<"id", "jina">>]]

defaultClinics ==
  <<[id |-> "C001", jina |-> "Kisiwani"], [id |-> "C002", jina |-> "Mikwambe"],
    [id |-> "C003", jina |-> "Kibada"], [id |-> "C004", jina |-> "Jirambe"]>>

(***************************************************************************)
(* The backing file: whether it exists and the sheets of its workbook.     *)
(* disk is the condition of the storage: "ok", "readonly" (xlsx.writeFile  *)
(* throws) or "unreadable" (xlsx.readFile throws as well).                 *)
(***************************************************************************)
NoFile == [exists |-> FALSE, sheets |-> <<>>]

Has(m, k) == k \in DOMAIN m /\ ~Falsy(k, m[k])

\* book_new() followed by book_append_sheet of a header-only sheet per table
NewWorkbook(v) ==
  [n \in {SHEETS(v)[k].name : k \in SheetKeys} |->
     LET k == CHOOSE kk \in SheetKeys : SHEETS(v)[kk].name = n
     IN AoaToSheet(SHEETS(v)[k].headers)]

\* the workbook of an existing file with every missing sheet appended
WithMissingSheets(v, sheets) ==
  [n \in DOMAIN sheets \cup DOMAIN NewWorkbook(v) |->
     IF n \in DOMAIN sheets THEN sheets[n] ELSE NewWorkbook(v)[n]]

\* the default clinics written over whatever the sheet holds
SeedClinics_Always(v, wb) ==
  [wb EXCEPT !["Clinics"] = JsonToSheet(defaultClinics, SHEETS(v).CLINICS.headers)]

\* default clinics are written when the Clinics sheet has no data row
SeedClinics(v, wb) ==
  IF Len(SheetToJson(wb["Clinics"])) = 0
  THEN [wb EXCEPT !["Clinics"] = JsonToSheet(defaultClinics, SHEETS(v).CLINICS.headers)]
  ELSE wb

\* medicine.UPDATED_AT || new Date().toISOString()
StampUpdatedAt(m) ==
  [k \in DOMAIN m \cup {"UPDATED_AT"} |->
     IF k = "UPDATED_AT" THEN (IF Has(m, "UPDATED_AT") THEN m.UPDATED_AT ELSE NowIso)
     ELSE m[k]]

\* src/app.js:347-372: only valid medicines are kept and stamped
ProcessDawaKisiwani(v, wb) ==
  LET dawaData == SheetToJson(wb["Dawa"])
      validDawaData == SelectSeq(dawaData, LAMBDA m :
                         Has(m, "id") /\ Has(m, "jina") /\ Trim(m.jina) # "" /\ Has(m, "aina"))
  IN IF Len(validDawaData) > 0
     THEN [wb EXCEPT !["Dawa"] =
             JsonToSheet([i \in 1..Len(validDawaData) |-> StampUpdatedAt(validDawaData[i])],
                         SHEETS(v).DAWA.headers)]
     ELSE wb

\* src/app.js:1441-1451: the sheet is read with the declared header array
ProcessDawaUpdated(v, wb) ==
  LET dawaData == SheetToJsonHeader(wb["Dawa"], SHEETS(v).DAWA.headers)
  IN [wb EXCEPT !["Dawa"] =
        JsonToSheet([i \in 1..Len(dawaData) |-> StampUpdatedAt(dawaData[i])],
                    SHEETS(v).DAWA.headers)]

ProcessDawa(v, wb) ==
  CASE v = "kisiwani" -> ProcessDawaKisiwani(v, wb)
    [] v = "updated" -> ProcessDawaUpdated(v, wb)
    [] OTHER -> wb

\* initializeDatabase(): the file afterwards, or threw when the final
\* xlsx.writeFile fails
initializeDatabase(v, d, f) ==
  LET workbook == IF f.exists /\ d # "unreadable"
                  THEN WithMissingSheets(v, f.sheets)
                  ELSE NewWorkbook(v)
      done == ProcessDawa(v, SeedClinics(v, workbook))
  IN IF d = "ok" THEN [threw |-> FALSE, file |-> [exists |-> TRUE, sheets |-> done]]
     ELSE [threw |-> TRUE, file |-> f]

\* the body of readSheet's try block
ReadSheetTry(v, d, f, sheetKey) ==
  IF ~f.exists \/ d = "unreadable" THEN [threw |-> TRUE, rows |-> <<>>]
  ELSE LET config == SHEETS(v)[sheetKey]
           present == config.name \in DOMAIN f.sheets
           sheetHeaders == IF present THEN f.sheets[config.name].hdr ELSE <<>>
           headers == IF Len(sheetHeaders) > 0 THEN sheetHeaders ELSE config.headers
           json == IF present THEN SheetToJsonHeader(f.sheets[config.name], headers) ELSE <<>>
           sliced == IF Len(json) = 0 THEN <<>> ELSE Tail(json)
           fill(row) == [h \in Range(headers) |-> OrBlank(row, h)]
       IN [threw |-> FALSE,
           rows |-> IF v = "clinics" THEN sliced
                    ELSE [i \in 1..Len(sliced) |-> fill(sliced[i])]]

\* readSheet without its catch block
readSheet_NoCatch(v, d, f, sheetKey) ==
  LET r == ReadSheetTry(v, d, f, sheetKey)
  IN [raised |-> r.threw, rows |-> r.rows]

\* readSheet(sheetKey): the catch block turns every error into []
readSheet(v, d, f, sheetKey) ==
  LET r == ReadSheetTry(v, d, f, sheetKey)
  IN IF r.threw THEN [raised |-> FALSE, rows |-> <<>>]
     ELSE [raised |-> FALSE, rows |-> r.rows]

\* the rows writeSheet hands to json_to_sheet
WriteRows(v, sheetKey, data) ==
  IF v = "clinics"
  THEN [i \in 1..Len(data) |->
         [k \in DOMAIN data[i] \cup {"tarehe"} |->
            IF k = "tarehe"
            THEN (IF Has(data[i], "tarehe") THEN ToISOString(data[i].tarehe) ELSE "")
            ELSE data[i][k]]]
  ELSE [i \in 1..Len(data) |->
         [h \in Range(SHEETS(v)[sheetKey].headers) |-> OrBlank(data[i], h)]]

\* the body of writeSheet's try block
WriteSheetTry(v, d, f, sheetKey, data) ==
  LET config == SHEETS(v)[sheetKey]
      badDate == v = "clinics" /\
                 \E i \in 1..Len(data) : Has(data[i], "tarehe") /\ ~ValidDate(data[i].tarehe)
  IN IF ~f.exists \/ d # "ok" \/ badDate THEN [threw |-> TRUE, file |-> f]
     ELSE [threw |-> FALSE,
           file |-> [f EXCEPT !.sheets[config.name] =
                       JsonToSheet(WriteRows(v, sheetKey, data), config.headers)]]

\* writeSheet(sheetKey, data): true, or false from the catch block
writeSheet(v, d, f, sheetKey, data) ==
  LET w == WriteSheetTry(v, d, f, sheetKey, data)
  IN [raised |-> FALSE, ok |-> ~w.threw, file |-> w.file]

(***************************************************************************)
(* Request handlers.  Each yields the file afterwards and the response:    *)
(* its kind, whether writeSheet was called and what it returned, the table *)
(* and data handed to writeSheet, the records the handler added, and the   *)
(* view data of a rendered page.                                           *)
(***************************************************************************)
Field(row, k) == IF k \in DOMAIN row THEN row[k] ELSE Blank(k)

Rows(v, d, f, sheetKey) == readSheet(v, d, f, sheetKey).rows

Respond(f, kind) ==
  [file |-> f,
   resp |-> [kind |-> kind, wrote |-> "none", table |-> "", written |-> <<>>,
             appended |-> <<>>, view |-> <<>>]]

\* await writeSheet(key, data) followed by the given response
WriteThen(v, d, f, sheetKey, data, new, kind) ==
  LET w == writeSheet(v, d, f, sheetKey, data)
  IN [file |-> w.file,
      resp |-> [kind |-> IF w.raised THEN "error500" ELSE kind,
                wrote |-> IF w.ok THEN "ok" ELSE "failed",
                table |-> sheetKey, written |-> data, appended |-> new,
                view |-> <<>>]]

Ids(rows) == {Field(rows[i], "id") : i \in 1..Len(rows)}

\* findIndex(d => d.jina?.toLowerCase() === name): 0 when there is none
FindByName(rows, name) ==
  LET hits == {i \in 1..Len(rows) : ToLowerCase(Field(rows[i], "jina")) = name}
  IN IF hits = {} THEN 0 ELSE CHOOSE i \in hits : \A j \in hits : i <= j

\* findIndex(d => d.id === id): 0 when there is none
FindById(rows, id) ==
  LET hits == {i \in 1..Len(rows) : Field(rows[i], "id") = id}
  IN IF hits = {} THEN 0 ELSE CHOOSE i \in hits : \A j \in hits : i <= j

\* a restock that takes the quantity away
AddStock_Subtract(rows, i, kiasi) ==
  [rows EXCEPT ![i] =
     [k \in DOMAIN rows[i] \cup {"kiasi", "UPDATED_AT"} |->
        CASE k = "kiasi" -> ToNumber(Field(rows[i], "kiasi")) - JsNumber(kiasi)
          [] k = "UPDATED_AT" -> NowIso
          [] OTHER -> rows[i][k]]]

\* dawa[i].kiasi = Number(dawa[i].kiasi) + Number(kiasi); UPDATED_AT = now
AddStock(rows, i, kiasi) ==
  [rows EXCEPT ![i] =
     [k \in DOMAIN rows[i] \cup {"kiasi", "UPDATED_AT"} |->
        CASE k = "kiasi" -> JsAdd(ToNumber(Field(rows[i], "kiasi")), JsNumber(kiasi))
          [] k = "UPDATED_AT" -> NowIso
          [] OTHER -> rows[i][k]]]

\* POST /dawa/ongeza, src/app.js:503-555
PostDawaOngezaKisiwani(v, d, f, jina, aina, kiasi) ==
  IF jina = "" \/ Trim(jina) = "" \/ aina = "" \/ Trim(aina) = ""
     \/ IsNaN(kiasi) \/ JsNumber(kiasi) <= 0
  THEN Respond(f, "invalid")
  ELSE IF ToLowerCase(Trim(jina)) = "aina" THEN Respond(f, "reserved")
  ELSE LET dawa == Rows(v, d, f, "DAWA")
           newMedicine == [id |-> NanoId("m", Ids(dawa)), jina |-> Trim(jina),
                           aina |-> Trim(aina), kiasi |-> JsNumber(kiasi),
                           UPDATED_AT |-> NowIso]
       IN IF FindByName(dawa, ToLowerCase(Trim(jina))) # 0
          THEN Respond(f, "duplicate")
          ELSE WriteThen(v, d, f, "DAWA", Append(dawa, newMedicine),
                         <<newMedicine>>, "redirect")

\* POST /dawa/ongeza, src/app.js:1550-1588: a known name is restocked
PostDawaOngezaUpdated(v, d, f, jina, aina, kiasi) ==
  IF jina = "" \/ aina = "" \/ IsNaN(kiasi) \/ JsNumber(kiasi) <= 0
  THEN Respond(f, "invalid")
  ELSE LET dawa == Rows(v, d, f, "DAWA")
           existingIndex == FindByName(dawa, ToLowerCase(jina))
           newMedicine == [id |-> NanoId("m", Ids(dawa)), jina |-> jina,
                           aina |-> aina, kiasi |-> JsNumber(kiasi),
                           UPDATED_AT |-> NowIso]
       IN IF existingIndex # 0
          THEN WriteThen(v, d, f, "DAWA", AddStock(dawa, existingIndex, kiasi),
                         <<>>, "redirect")
          ELSE WriteThen(v, d, f, "DAWA", Append(dawa, newMedicine),
                         <<newMedicine>>, "redirect")

\* POST /dawa/ongeza, src/unnamed/part_001:145-173
PostDawaOngezaClinics(v, d, f, jina, aina, kiasi) ==
  IF jina = "" \/ aina = "" \/ IsNaN(kiasi) \/ JsNumber(kiasi) <= 0
  THEN Respond(f, "invalid")
  ELSE LET dawa == Rows(v, d, f, "DAWA")
           newMedicine == [id |-> NanoId("m", Ids(dawa)), jina |-> jina,
                           aina |-> aina, kiasi |-> JsNumber(kiasi)]
       IN IF FindByName(dawa, ToLowerCase(jina)) # 0
          THEN Respond(f, "duplicate")
          ELSE WriteThen(v, d, f, "DAWA", Append(dawa, newMedicine),
                         <<newMedicine>>, "redirect")

PostDawaOngeza(v, d, f, jina, aina, kiasi) ==
  CASE v = "kisiwani" -> PostDawaOngezaKisiwani(v, d, f, jina, aina, kiasi)
    [] v = "updated" -> PostDawaOngezaUpdated(v, d, f, jina, aina, kiasi)
    [] OTHER -> PostDawaOngezaClinics(v, d, f, jina, aina, kiasi)

\* a restock that takes any amount
PostOngezaStock_AnyAmount(v, d, f, dawaId, kiasi) ==
  IF dawaId = ""
  THEN Respond(f, "invalid")
  ELSE LET dawa == Rows(v, d, f, "DAWA")
           medicineIndex == FindById(dawa, dawaId)
       IN IF medicineIndex = 0 THEN Respond(f, "not_found")
          ELSE WriteThen(v, d, f, "DAWA", AddStock(dawa, medicineIndex, kiasi),
                         <<>>, "redirect")

\* POST /dawa/ongeza-stock, src/app.js:571-598 and 1601-1628
PostOngezaStock(v, d, f, dawaId, kiasi) ==
  IF dawaId = "" \/ IsNaN(kiasi) \/ JsNumber(kiasi) <= 0
  THEN Respond(f, "invalid")
  ELSE LET dawa == Rows(v, d, f, "DAWA")
           medicineIndex == FindById(dawa, dawaId)
       IN IF medicineIndex = 0 THEN Respond(f, "not_found")
          ELSE WriteThen(v, d, f, "DAWA", AddStock(dawa, medicineIndex, kiasi),
                         <<>>, "redirect")

\* jina.trim().length < 2
ShortName(jina) == Trim(jina) \in {"", "A"}

\* POST /mtumiaji/ongeza, src/app.js:610-654, 1640-1683, part_001:185-207
PostMtumiajiOngeza(v, d, f, jina, description, clinicId) ==
  IF jina = "" \/ ShortName(jina) THEN Respond(f, "invalid")
  ELSE IF clinicId = "" THEN Respond(f, IF v = "clinics" THEN "invalid" ELSE "no_clinic")
  ELSE LET watumiaji == Rows(v, d, f, "WATUMIAJI")
           newUser == [id |-> NanoId("u", Ids(watumiaji)), jina |-> Trim(jina),
                       maelezo |-> Trim(description), clinicId |-> clinicId]
       IN IF FindByName(watumiaji, ToLowerCase(Trim(jina))) # 0
          THEN Respond(f, "duplicate")
          ELSE WriteThen(v, d, f, "WATUMIAJI", Append(watumiaji, newUser),
                         <<newUser>>, "redirect")

\* POST /mtumiaji/transfer, src/app.js:831-854, 1838-1861, part_001:364-383
PostMtumiajiTransfer(v, d, f, mtumiajiId, newClinicId) ==
  IF mtumiajiId = "" \/ newClinicId = "" THEN Respond(f, "invalid")
  ELSE LET watumiaji == Rows(v, d, f, "WATUMIAJI")
           index == FindById(watumiaji, mtumiajiId)
       IN IF index = 0 THEN Respond(f, "not_found")
          ELSE WriteThen(v, d, f, "WATUMIAJI",
                 [watumiaji EXCEPT ![index] =
                    [k \in DOMAIN watumiaji[index] \cup {"clinicId"} |->
                       IF k = "clinicId" THEN newClinicId ELSE watumiaji[index][k]]],
                 <<>>, "redirect")

\* the rows without the one at the index
WithoutRow(rows, index) ==
  [i \in 1..(Len(rows) - 1) |-> IF i < index THEN rows[i] ELSE rows[i + 1]]

\* a deletion that takes the usage events of the user along
deleteUser_Cascade(v, d, f, userId) ==
  LET watumiaji == Rows(v, d, f, "WATUMIAJI")
      matumizi == Rows(v, d, f, "MATUMIZI")
      index == FindById(watumiaji, userId)
      first == WriteThen(v, d, f, "WATUMIAJI", WithoutRow(watumiaji, index), <<>>, "redirect")
      kept == {i \in 1..Len(matumizi) : Field(matumizi[i], "mtumiajiId") # userId}
      second == writeSheet(v, d, first.file, "MATUMIZI",
                           [i \in 1..Cardinality(kept) |->
                              matumizi[CHOOSE k \in kept :
                                         Cardinality({j \in kept : j <= k}) = i]])
  IN IF index = 0 THEN Respond(f, "not_found")
     ELSE [file |-> second.file, resp |-> first.resp]

\* deleteUser(userId) of the specification: NotFoundError when the user is
\* absent, otherwise the user row is removed; written the way the handlers
\* of the repository change the Users table
deleteUser(v, d, f, userId) ==
  LET watumiaji == Rows(v, d, f, "WATUMIAJI")
      index == FindById(watumiaji, userId)
  IN IF index = 0 THEN Respond(f, "not_found")
     ELSE WriteThen(v, d, f, "WATUMIAJI", WithoutRow(watumiaji, index), <<>>, "redirect")

\* reduce((sum, m) => sum + (Number(m.kiasi) || 0), 0) over the usage of a medicine
RECURSIVE TotalUsed(_, _)
TotalUsed(matumizi, dawaId) ==
  IF Len(matumizi) = 0 THEN 0
  ELSE (IF Field(matumizi[1], "dawaId") = dawaId
        THEN NumOr0(Field(matumizi[1], "kiasi")) ELSE 0)
       + TotalUsed(Tail(matumizi), dawaId)

\* (Number(medicine.kiasi) || 0) - totalUsed
RemainingStock(allDawa, matumizi, dawaId) ==
  NumOr0(Field(allDawa[FindById(allDawa, dawaId)], "kiasi")) - TotalUsed(matumizi, dawaId)

IsConfirmed(item) == item.confirmed = "true"

\* a confirmed line item whose quantity is not a number or is below 1
BadQuantity(item) ==
  IsConfirmed(item) /\ (ParseInt(item.kiasi) = NaN \/ ParseInt(item.kiasi) <= 0)

\* every line item taken, confirmed or not
ConfirmedDawa_All(dawaArray) ==
  [i \in 1..Len(dawaArray) |->
     [id |-> dawaArray[i].id, kiasi |-> ParseInt(dawaArray[i].kiasi),
      tarehe |-> dawaArray[i].tarehe]]

\* confirmedDawa: the confirmed line items with kiasi parsed
ConfirmedDawa(dawaArray) ==
  LET confirmed == SelectSeq(dawaArray, IsConfirmed)
  IN [i \in 1..Len(confirmed) |->
        [id |-> confirmed[i].id, kiasi |-> ParseInt(confirmed[i].kiasi),
         tarehe |-> confirmed[i].tarehe]]

\* a stock check that only looks the medicine up
StockCheckFails_LookupOnly(allDawa, existingMatumizi, item) ==
  FindById(allDawa, item.id) = 0

\* the line item fails the stock check: unknown medicine or more than remains
StockCheckFails(allDawa, existingMatumizi, item) ==
  FindById(allDawa, item.id) = 0
  \/ item.kiasi > RemainingStock(allDawa, existingMatumizi, item.id)

\* a stamp that does not follow the user's clinic
UserClinicId_Fixed(mtumiaji) ==
  "C001"

\* mtumiaji.clinicId || 'unknown'
UserClinicId(mtumiaji) ==
  IF Has(mtumiaji, "clinicId") THEN mtumiaji.clinicId ELSE "unknown"

\* validUsages.map(d => ({ id: nanoid(), ... }))
RECURSIVE NewMatumizi(_, _, _, _)
NewMatumizi(validUsages, used, mtumiaji, today) ==
  IF Len(validUsages) = 0 THEN <<>>
  ELSE LET item == validUsages[1]
           id == NanoId("e", used)
       IN <<[id |-> id, mtumiajiId |-> mtumiaji.id, mtumiajiJina |-> Field(mtumiaji, "jina"),
             maelezo |-> Field(mtumiaji, "maelezo"), dawaId |-> item.id, kiasi |-> item.kiasi,
             tarehe |-> IF item.tarehe # "" THEN item.tarehe ELSE today,
             clinicId |-> UserClinicId(mtumiaji)]>>
          \o NewMatumizi(Tail(validUsages), used \cup {id}, mtumiaji, today)

\* a write of the new events alone
WithNewMatumizi_Alone(existingMatumizi, newMatumizi) ==
  newMatumizi

\* [...existingMatumizi, ...newMatumizi]
WithNewMatumizi(existingMatumizi, newMatumizi) ==
  existingMatumizi \o newMatumizi

\* usage recorded for the users of every clinic
PostMatumiziSajili_AnyClinic(v, d, f, mtumiajiId, dawaList) ==
  IF mtumiajiId = "" THEN Respond(f, "no_user")
  ELSE IF Len(dawaList) = 0 THEN Respond(f, "no_list")
  ELSE IF \E i \in 1..Len(dawaList) : BadQuantity(dawaList[i]) THEN Respond(f, "qty_error")
  ELSE IF Len(ConfirmedDawa(dawaList)) = 0 THEN Respond(f, "none_confirmed")
  ELSE LET confirmedDawa == ConfirmedDawa(dawaList)
           allDawa == Rows(v, d, f, "DAWA")
           allWatumiaji == Rows(v, d, f, "WATUMIAJI")
           existingMatumizi == Rows(v, d, f, "MATUMIZI")
           index == FindById(allWatumiaji, mtumiajiId)
           mtumiaji == allWatumiaji[index]
           newMatumizi == NewMatumizi(confirmedDawa, Ids(existingMatumizi), mtumiaji,
                                      IF v = "kisiwani" THEN NowDate ELSE NowIso)
       IN IF \E i \in 1..Len(confirmedDawa) :
               StockCheckFails(allDawa, existingMatumizi, confirmedDawa[i])
          THEN Respond(f, "stock_error")
          ELSE IF index = 0 THEN Respond(f, "user_missing")
          ELSE WriteThen(v, d, f, "MATUMIZI", WithNewMatumizi(existingMatumizi, newMatumizi),
                         newMatumizi, "redirect")

\* POST /matumizi/sajili, src/app.js:678-816, 1698-1823, part_001:223-349;
\* dawaList = <<>> stands for a request without the field
PostMatumiziSajili(v, d, f, mtumiajiId, dawaList) ==
  IF mtumiajiId = "" THEN Respond(f, "no_user")
  ELSE IF Len(dawaList) = 0 THEN Respond(f, "no_list")
  ELSE IF \E i \in 1..Len(dawaList) : BadQuantity(dawaList[i]) THEN Respond(f, "qty_error")
  ELSE IF Len(ConfirmedDawa(dawaList)) = 0 THEN Respond(f, "none_confirmed")
  ELSE LET confirmedDawa == ConfirmedDawa(dawaList)
           allDawa == Rows(v, d, f, "DAWA")
           allWatumiaji == Rows(v, d, f, "WATUMIAJI")
           existingMatumizi == Rows(v, d, f, "MATUMIZI")
           index == FindById(allWatumiaji, mtumiajiId)
           mtumiaji == allWatumiaji[index]
           newMatumizi == NewMatumizi(confirmedDawa, Ids(existingMatumizi), mtumiaji,
                                      IF v = "kisiwani" THEN NowDate ELSE NowIso)
       IN IF \E i \in 1..Len(confirmedDawa) :
               StockCheckFails(allDawa, existingMatumizi, confirmedDawa[i])
          THEN Respond(f, "stock_error")
          ELSE IF index = 0 THEN Respond(f, "user_missing")
          ELSE IF v = "kisiwani" /\ Field(mtumiaji, "clinicId") # "C001"
          THEN Respond(f, "not_kisiwani")
          ELSE WriteThen(v, d, f, "MATUMIZI", WithNewMatumizi(existingMatumizi, newMatumizi),
                         newMatumizi, "redirect")

\* a stock report that leaves the usage out of what remains
GetDashboard_NoUsage(v, d, f) ==
  LET dawa == Rows(v, d, f, "DAWA")
      matumizi == Rows(v, d, f, "MATUMIZI")
      ripoti == [i \in 1..Len(dawa) |->
                  [id |-> Field(dawa[i], "id"),
                   jumlaMatumizi |-> TotalUsed(matumizi, Field(dawa[i], "id")),
                   kilichobaki |-> NumOr0(Field(dawa[i], "kiasi"))]]
  IN [file |-> f,
      resp |-> [kind |-> "render", wrote |-> "none", table |-> "", written |-> <<>>,
                appended |-> <<>>, view |-> <<[dawa |-> ripoti, error |-> Len(ripoti) = 0]>>]]

\* GET /, src/app.js:442-494: the stock report and the empty-data flag
GetDashboard(v, d, f) ==
  LET dawa == Rows(v, d, f, "DAWA")
      matumizi == Rows(v, d, f, "MATUMIZI")
      ripoti == [i \in 1..Len(dawa) |->
                  [id |-> Field(dawa[i], "id"),
                   jumlaMatumizi |-> TotalUsed(matumizi, Field(dawa[i], "id")),
                   kilichobaki |-> NumOr0(Field(dawa[i], "kiasi"))
                                   - TotalUsed(matumizi, Field(dawa[i], "id"))]]
  IN [file |-> f,
      resp |-> [kind |-> "render", wrote |-> "none", table |-> "", written |-> <<>>,
                appended |-> <<>>, view |-> <<[dawa |-> ripoti, error |-> Len(ripoti) = 0]>>]]

\* startDate and endDate of GET /ripoti/matumizi, src/app.js:1202-1230,
\* 1874-1896, part_001:396-412; filter is false while startDate is null and
\* bounded is false while endDate is null
NoRange == [filter |-> FALSE, start |-> 0, bounded |-> FALSE, end |-> 0]

Between(start, end) == [filter |-> TRUE, start |-> start, bounded |-> TRUE, end |-> end]

From(start) == [filter |-> TRUE, start |-> start, bounded |-> FALSE, end |-> 0]

ReportRangeKisiwani(mode, from, to) ==
  IF mode = "day" /\ from # ""
  THEN Between(StartOfDay(GetTime(from)), EndOfDay(GetTime(from)))
  ELSE IF from # "" /\ to # ""
  THEN Between(StartOfDay(GetTime(from)), EndOfDay(GetTime(to)))
  ELSE NoRange

ReportRangeUpdated(now, mode, from, to) ==
  IF mode = "week"
  THEN Between(StartOfDay(now) - 24 * GetDay(now),
               EndOfDay(StartOfDay(now) - 24 * GetDay(now) + 6 * 24))
  ELSE IF mode = "month"
  THEN Between(FirstOfMonth(now, 1), EndOfDay(LastOfMonth(now, 1)))
  ELSE IF from # "" /\ to # ""
  THEN Between(StartOfDay(GetTime(from)), EndOfDay(GetTime(to)))
  ELSE NoRange

ReportRangeClinics(now, mode, from, to) ==
  IF mode = "week" THEN From(StartOfDay(now) - 24 * GetDay(now))
  ELSE IF mode = "month" THEN From(FirstOfMonth(now, 1))
  ELSE IF from # "" /\ to # "" THEN Between(GetTime(from), EndOfDay(GetTime(to)))
  ELSE NoRange

ReportRange(v, now, mode, from, to) ==
  CASE v = "kisiwani" -> ReportRangeKisiwani(mode, from, to)
    [] v = "updated" -> ReportRangeUpdated(now, mode, from, to)
    [] v = "clinics" -> ReportRangeClinics(now, mode, from, to)

\* t >= startDate && (!endDate || t <= endDate)
InRange(range, tarehe) ==
  \/ ~range.filter
  \/ /\ DateGe(GetTime(tarehe), range.start)
     /\ (~range.bounded \/ DateLe(GetTime(tarehe), range.end))

\* filteredMatumizi.filter(m => m.mtumiajiId === user.id)
RECURSIVE UserUsages(_, _, _)
UserUsages(matumizi, range, userId) ==
  IF Len(matumizi) = 0 THEN <<>>
  ELSE (IF InRange(range, Field(matumizi[1], "tarehe"))
           /\ Field(matumizi[1], "mtumiajiId") = userId
        THEN <<matumizi[1]>> ELSE <<>>)
       \o UserUsages(Tail(matumizi), range, userId)

\* the users the report lists: those of clinic C001 in the Kisiwani iteration
RECURSIVE ListedUsers(_, _)
ListedUsers(v, allWatumiaji) ==
  IF Len(allWatumiaji) = 0 THEN <<>>
  ELSE (IF v = "kisiwani" /\ Field(allWatumiaji[1], "clinicId") # "C001"
        THEN <<>> ELSE <<allWatumiaji[1]>>)
       \o ListedUsers(v, Tail(allWatumiaji))

\* byDate[day].push({ dawa, kiasi, saa, kliniki }) for the usages of one day
RECURSIVE DayEntries(_, _, _, _)
DayEntries(userUsages, day, dawa, clinics) ==
  IF Len(userUsages) = 0 THEN <<>>
  ELSE LET usage == userUsages[1]
           medicine == FindById(dawa, Field(usage, "dawaId"))
           clinic == FindById(clinics, Field(usage, "clinicId"))
       IN (IF FormatDate(Field(usage, "tarehe")) = day
           THEN <<[dawa |-> IF medicine = 0 THEN "Haijulikani"
                            ELSE Field(dawa[medicine], "jina"),
                   kiasi |-> Field(usage, "kiasi"),
                   saa |-> FormatTime(Field(usage, "tarehe")),
                   kliniki |-> IF clinic = 0 \/ Falsy("jina", Field(clinics[clinic], "jina"))
                               THEN "Haijulikani"
                               ELSE Field(clinics[clinic], "jina")]>>
           ELSE <<>>)
          \o DayEntries(Tail(userUsages), day, dawa, clinics)

\* GET /ripoti/matumizi, src/app.js:1189-1325, 1864-1972, part_001:386-480
GetRipotiMatumizi(v, d, f, mode, from, to) ==
  LET watumiaji == ListedUsers(v, Rows(v, d, f, "WATUMIAJI"))
      dawa == Rows(v, d, f, "DAWA")
      matumizi == Rows(v, d, f, "MATUMIZI")
      clinics == Rows(v, d, f, "CLINICS")
      range == ReportRange(v, GetTime(NowIso), mode, from, to)
      report == [i \in 1..Len(watumiaji) |->
                  LET userUsages == UserUsages(matumizi, range, Field(watumiaji[i], "id"))
                      days == {FormatDate(Field(userUsages[k], "tarehe")) :
                                 k \in 1..Len(userUsages)}
                  IN [jina |-> Field(watumiaji[i], "jina"),
                      matumiziByDate |->
                        [day \in days |-> DayEntries(userUsages, day, dawa, clinics)]]]
  IN [file |-> f,
      resp |-> [kind |-> "render", wrote |-> "none", table |-> "", written |-> <<>>,
                appended |-> <<>>, view |-> report]]

\* dawaMap[id]: the index of the last medicine row with this id, 0 when no
\* row with a truthy id has it (src/app.js:877-880)
DawaMap(dawa, id) ==
  LET hits == {i \in 1..Len(dawa) : Has(dawa[i], "id") /\ dawa[i].id = id}
  IN IF hits = {} THEN 0 ELSE CHOOSE i \in hits : \A j \in hits : j <= i

\* the usage event passes the early returns of src/app.js:909-919
AdminCounted(usage, dawa, watumiaji) ==
  /\ Has(usage, "dawaId")
  /\ Has(usage, "mtumiajiId")
  /\ DawaMap(dawa, usage.dawaId) # 0
  /\ FindById(watumiaji, usage.mtumiajiId) # 0
  /\ Has(watumiaji[FindById(watumiaji, usage.mtumiajiId)], "clinicId")

\* the counted usage events, in the order of the table
RECURSIVE AdminUsages(_, _, _)
AdminUsages(matumizi, dawa, watumiaji) ==
  IF Len(matumizi) = 0 THEN <<>>
  ELSE (IF AdminCounted(matumizi[1], dawa, watumiaji) THEN <<matumizi[1]>> ELSE <<>>)
       \o AdminUsages(Tail(matumizi), dawa, watumiaji)

\* the keys of an object filled while passing over the events: each value of
\* the sequence once, in the order of its first appearance
RECURSIVE FirstSeen(_)
FirstSeen(keys) ==
  IF Len(keys) = 0 THEN <<>>
  ELSE LET front == FirstSeen(SubSeq(keys, 1, Len(keys) - 1))
       IN IF keys[Len(keys)] \in Range(front) THEN front
          ELSE Append(front, keys[Len(keys)])

\* parseInt(medicine.kilichobaki) || 0
RemainingOf(medicine) ==
  IF Has(medicine, "kilichobaki") THEN NumOr0(medicine.kilichobaki) ELSE 0

\* the sum of parseInt(usage.kiasi) || 0 over the counted events that the
\* test selects
RECURSIVE AdminTotal(_, _, _)
AdminTotal(usages, field, key) ==
  IF Len(usages) = 0 THEN 0
  ELSE (IF usages[1][field] = key THEN NumOr0(Field(usages[1], "kiasi")) ELSE 0)
       + AdminTotal(Tail(usages), field, key)

\* .sort((a, b) => b.totalUsed - a.totalUsed).slice(0, 5): the sort is stable
SortedTopFive(entries) ==
  LET rank(i) == 1 + Cardinality({j \in 1..Len(entries) :
                                   \/ entries[j].totalUsed > entries[i].totalUsed
                                   \/ /\ entries[j].totalUsed = entries[i].totalUsed
                                      /\ j < i})
  IN [r \in 1..Min(5, Len(entries)) |->
        entries[CHOOSE i \in 1..Len(entries) : rank(i) = r]]

\* the statistics GET /admin/watumiaji computes from the tables it has read
\* and the usage events it counts, src/app.js:921-1130
AdminStats(watumiaji, clinics, dawa, usages, selectedMedicine) ==
  LET clinicOf(userId) == watumiaji[FindById(watumiaji, userId)].clinicId
      activeUserIds == {usages[i].mtumiajiId : i \in 1..Len(usages)}
      usedIds == FirstSeen([i \in 1..Len(usages) |-> usages[i].dawaId])
      medicineUsage ==
        [i \in 1..Len(usedIds) |->
           [id |-> usedIds[i],
            name |-> Field(dawa[DawaMap(dawa, usedIds[i])], "jina"),
            totalUsed |-> AdminTotal(usages, "dawaId", usedIds[i]),
            remaining |-> RemainingOf(dawa[DawaMap(dawa, usedIds[i])])]]
      clinicIds == {clinicOf(usages[i].mtumiajiId) : i \in 1..Len(usages)}
      members(c) == {i \in 1..Len(watumiaji) : Has(watumiaji[i], "clinicId")
                                               /\ watumiaji[i].clinicId = c}
      active(c) == {i \in members(c) : Field(watumiaji[i], "id") \in activeUserIds}
      clinicStats ==
        [c \in clinicIds |->
           [name |-> IF FindById(clinics, c) # 0 /\ Has(clinics[FindById(clinics, c)], "jina")
                     THEN clinics[FindById(clinics, c)].jina ELSE "Unknown",
            totalUsers |-> Cardinality(members(c)),
            activeUsers |-> Cardinality(active(c)),
            inactiveUsers |-> Cardinality(members(c)) - Cardinality(active(c))]]
      selected == DawaMap(dawa, selectedMedicine)
      report ==
        IF selectedMedicine = "" \/ selected = 0 THEN <<>>
        ELSE <<[name |-> Field(dawa[selected], "jina"),
                totalUsed |-> AdminTotal(usages, "dawaId", selectedMedicine),
                remaining |-> RemainingOf(dawa[selected])]>>
      stats == [totalUsers |-> Len(watumiaji),
                activeUsers |-> Cardinality(activeUserIds),
                inactiveUsers |-> Len(watumiaji) - Cardinality(activeUserIds),
                clinicStats |-> clinicStats,
                mostConsumedMedicines |-> SortedTopFive(medicineUsage),
                selectedMedicine |-> report]
  IN stats

\* GET /admin/watumiaji, src/app.js:858-1164: the four tables are read once,
\* the usage events are filtered once, and the view gets the statistics
GetAdminWatumiaji(v, d, f, selectedMedicine) ==
  LET views == {AdminStats(watumiaji, clinics, dawa, usages, selectedMedicine) :
                  <<watumiaji, clinics, dawa, usages>> \in
                    {<<w, c, dw, AdminUsages(m, dw, w)>> :
                       <<w, c, dw, m>> \in {<<Rows(v, d, f, "WATUMIAJI"),
                                             Rows(v, d, f, "CLINICS"),
                                             Rows(v, d, f, "DAWA"),
                                             Rows(v, d, f, "MATUMIZI")>>}}}
  IN [file |-> f,
      resp |-> [kind |-> "render", wrote |-> "none", table |-> "", written |-> <<>>,
                appended |-> <<>>, view |-> <<CHOOSE stats \in views : TRUE>>]]

(***************************************************************************)
(* Requests.  Every action handles one request from start to response:     *)
(* the xlsx calls are synchronous, so a handler of the spreadsheet         *)
(* iterations never yields to another request between its read and write.  *)
(***************************************************************************)
Item(id, kiasi, confirmed, tarehe) ==
  [id |-> id, kiasi |-> kiasi, confirmed |-> confirmed, tarehe |-> tarehe]

\* medicines that are not echoes of the header row
Medicines(f) ==
  SelectSeq(f.sheets["Dawa"].rows, LAMBDA m : Field(m, "id") # "id")

HeaderEchoes(f) ==
  SelectSeq(f.sheets["Dawa"].rows, LAMBDA m : Field(m, "id") = "id")

WithinBounds(f) ==
  /\ Len(Medicines(f)) <= MaxMeds
  /\ Len(HeaderEchoes(f)) <= MaxInits
  /\ Len(f.sheets["Watumiaji"].rows) <= MaxUsers
  /\ Len(f.sheets["Matumizi"].rows) <= MaxEvents
  /\ \A i \in 1..Len(Medicines(f)) : Field(Medicines(f)[i], "kiasi") <= MaxStock

Handled(r, request) ==
  /\ \E out \in {r} :
       /\ WithinBounds(out.file)
       /\ file' = out.file
       /\ resp' = out.resp
  /\ req' = request
  /\ UNCHANGED <<variant, disk, low>>

\* the routes are registered once initializeDatabase() has returned
Serving == file.exists

AddMedicine(Inputs) ==
  /\ Serving
  /\ \E i \in Inputs :
       Handled(PostDawaOngeza(variant, disk, file, i.jina, i.aina, i.kiasi),
               [op |-> "addMedicine", jina |-> i.jina, aina |-> i.aina, kiasi |-> i.kiasi])

Restock(Inputs) ==
  /\ Serving
  /\ variant # "clinics"
  /\ \E i \in Inputs :
       Handled(PostOngezaStock(variant, disk, file, i.dawaId, i.kiasi),
               [op |-> "restock", dawaId |-> i.dawaId, kiasi |-> i.kiasi])

AddUser(Inputs) ==
  /\ Serving
  /\ \E i \in Inputs :
       Handled(PostMtumiajiOngeza(variant, disk, file, i.jina, i.description, i.clinicId),
               [op |-> "addUser", jina |-> i.jina, description |-> i.description,
                clinicId |-> i.clinicId])

TransferUser(Inputs) ==
  /\ Serving
  /\ \E i \in Inputs :
       Handled(PostMtumiajiTransfer(variant, disk, file, i.mtumiajiId, i.newClinicId),
               [op |-> "transferUser", mtumiajiId |-> i.mtumiajiId,
                newClinicId |-> i.newClinicId])

RecordUsage(Inputs) ==
  /\ Serving
  /\ \E i \in Inputs :
       Handled(PostMatumiziSajili(variant, disk, file, i.mtumiajiId, i.dawaList),
               [op |-> "recordUsage", mtumiajiId |-> i.mtumiajiId, dawaList |-> i.dawaList])

Dashboard ==
  /\ Serving
  /\ Handled(GetDashboard(variant, disk, file), [op |-> "dashboard"])

DeleteUser(Inputs) ==
  /\ Serving
  /\ \E i \in Inputs :
       Handled(deleteUser(variant, disk, file, i), [op |-> "deleteUser", userId |-> i])

\* the statistics page is a route of the Kisiwani iteration only
AdminStatistics(Inputs) ==
  /\ Serving
  /\ variant = "kisiwani"
  /\ \E m \in Inputs :
       Handled(GetAdminWatumiaji(variant, disk, file, m),
               [op |-> "adminStatistics", selectedMedicine |-> m])

Report(Inputs) ==
  /\ Serving
  /\ \E q \in Inputs :
       Handled(GetRipotiMatumizi(variant, disk, file, q.mode, q.from, q.to),
               [op |-> "report", mode |-> q.mode, from |-> q.from, to |-> q.to])

\* the process is started again: startApp() runs initializeDatabase()
Restart ==
  LET r == initializeDatabase(variant, disk, file)
  IN /\ Serving
     /\ Handled([file |-> r.file,
                 resp |-> Respond(r.file, IF r.threw THEN "exit" ELSE "started").resp],
                [op |-> "init"])

\* the storage changes condition
DiskChange ==
  /\ disk' \in {"ok", "readonly", "unreadable"} \ {disk}
  /\ req' = [op |-> "disk"]
  /\ resp' = Respond(file, "none").resp
  /\ UNCHANGED <<variant, file, low>>

\* the lowdb object is not part of the spreadsheet iterations
LowIdle == <<>>

InitStore ==
  /\ variant \in Variants
  /\ disk = "ok"
  /\ file = initializeDatabase(variant, "ok", NoFile).file
  /\ req = [op |-> "init"]
  /\ resp = Respond(file, "started").resp
  /\ low = LowIdle

\* the Kisiwani iteration, src/app.js:271-1370, after its start
InitKisiwani == InitStore /\ variant = "kisiwani"

(***************************************************************************)
(* Inputs.                                                                 *)
(***************************************************************************)
MedicineForms ==
  [jina : {"", " ", "Panadol", "PANADOL", "Aina"}, aina : {"Vidonge"}, kiasi : {"2"}]
  \cup [jina : {"Panadol", "PANADOL"}, aina : {"Vidonge"}, kiasi : {"1"}]
  \cup [jina : {"Panadol"}, aina : {"Vidonge"}, kiasi : {"", "abc", "0", "-1"}]
  \cup [jina : {"Panadol"}, aina : {""}, kiasi : {"2"}]

ValidMedicineForms == [jina : {"Panadol", "Asprin"}, aina : {"Vidonge"}, kiasi : {"2"}]

RestockForms ==
  [dawaId : {"m1"}, kiasi : {"1", "abc"}] \cup [dawaId : {"", "m9"}, kiasi : {"1"}]

ValidRestockForms == [dawaId : {"m1"}, kiasi : {"1"}]

ValidUserForms == [jina : {"Asha"}, description : {""}, clinicId : {"C001"}]

TransferForms ==
  [mtumiajiId : {"u1"}, newClinicId : {"", "C001", "C002"}]
  \cup [mtumiajiId : {"", "u9"}, newClinicId : {"C001"}]

Confirmed(id, kiasi) == Item(id, kiasi, "true", "")

Unconfirmed(id, kiasi) == Item(id, kiasi, "", "")

DawaLists ==
  {<<>>}
  \cup {<<Confirmed("m1", k)>> : k \in {"1", "2", "3", "abc", "0"}}
  \cup {<<Confirmed("m9", "1")>>, <<Confirmed("m2", "2")>>, <<Unconfirmed("m1", "1")>>}
  \cup {<<Confirmed("m1", "1"), Confirmed("m1", k)>> : k \in {"1", "2", "3", "abc"}}
  \cup {<<Confirmed("m1", "3"), Confirmed("m1", "1")>>,
        <<Confirmed("m1", "1"), Confirmed("m9", "1")>>,
        <<Confirmed("m2", "3"), Confirmed("m1", "1")>>,
        <<Unconfirmed("m1", "3"), Confirmed("m1", "1")>>}

UsageForms ==
  [mtumiajiId : {"u1"}, dawaList : {l \in DawaLists : Len(l) <= MaxItems}]
  \cup [mtumiajiId : {"", "u9"}, dawaList : {<<Confirmed("m1", "1")>>}]

(***************************************************************************)
(* Specifications.                                                         *)
(***************************************************************************)
\* requests handled one at a time on a working disk
Next ==
  \/ AddMedicine(ValidMedicineForms)
  \/ Restock(ValidRestockForms)
  \/ AddUser(ValidUserForms)
  \/ RecordUsage(UsageForms)

Spec == InitStore /\ [][Next]_vars

TransferUsageForms ==
  [mtumiajiId : {"u1"},
   dawaList : {<<Confirmed("m1", "1")>>, <<Confirmed("m1", "3")>>,
               <<Confirmed("m1", "1"), Unconfirmed("m1", "3")>>}]

\* the same with users moved between clinics
NextTransfer ==
  \/ AddMedicine(ValidMedicineForms)
  \/ AddUser(ValidUserForms)
  \/ TransferUser(TransferForms)
  \/ RecordUsage(TransferUsageForms)

SpecTransfer == InitStore /\ [][NextTransfer]_vars

\* the medicine forms in full, with the process started again in between
NextMed ==
  \/ AddMedicine(MedicineForms)
  \/ Restock(RestockForms)
  \/ Restart

SpecMed == InitStore /\ [][NextMed]_vars

\* line items that carry their own date
IoUsageForms ==
  [mtumiajiId : {"u1"},
   dawaList : {<<Confirmed("m1", "1")>>, <<Item("m1", "1", "true", "2024-01-05")>>,
               <<Item("m1", "1", "true", "kesho")>>}]

\* requests on storage that can stop taking writes or reads
NextIO ==
  \/ AddMedicine(ValidMedicineForms)
  \/ AddUser(ValidUserForms)
  \/ RecordUsage(IoUsageForms)
  \/ Dashboard
  \/ DiskChange

SpecIO == InitStore /\ [][NextIO]_vars

\* user forms with a clinic that is stored, one that is not, and none
UserForms ==
  [jina : {"Asha", "Juma"}, description : {""}, clinicId : {"C001", "C999"}]
  \cup [jina : {"A", "ASHA"}, description : {""}, clinicId : {"C001"}]
  \cup [jina : {"Asha"}, description : {""}, clinicId : {""}]

UserTransferForms ==
  [mtumiajiId : {"u1", "u2"}, newClinicId : {"C002", "C999"}]
  \cup [mtumiajiId : {"", "u9"}, newClinicId : {"C002"}]
  \cup [mtumiajiId : {"u1"}, newClinicId : {""}]

\* the user forms in full
NextUsers ==
  \/ AddUser(UserForms)
  \/ TransferUser(UserTransferForms)

SpecUsers == InitStore /\ [][NextUsers]_vars

AllRestockForms == [dawaId : {"m1", "m9"}, kiasi : {"1"}]

AllTransferForms == [mtumiajiId : {"u1"}, newClinicId : {"C001", "C002"}]

AllUsageForms ==
  [mtumiajiId : {"u1"},
   dawaList : {<<Confirmed("m1", "1")>>,
               <<Confirmed("m1", "1"), Confirmed("m1", "2")>>,
               <<Unconfirmed("m1", "1"), Item("m1", "2", "true", "2024-01-05")>>,
               <<Confirmed("m1", "1"), Confirmed("m1", "0")>>,
               <<Confirmed("m1", "abc")>>}]

OneMedicineForm == [jina : {"Panadol"}, aina : {"Vidonge"}, kiasi : {"2"}]

\* restock of each stored medicine, of none, of an unknown one, and with
\* amounts that are zero, negative, not numeric or missing
FrameRestockForms ==
  [dawaId : {"m1", "m2"}, kiasi : {"1"}]
  \cup [dawaId : {"m1"}, kiasi : {"0", "-1", "abc", ""}]
  \cup [dawaId : {"", "m9"}, kiasi : {"1"}]

NextRestock ==
  \/ AddMedicine(ValidMedicineForms)
  \/ Restock(FrameRestockForms)
  \/ AddUser(ValidUserForms)
  \/ RecordUsage(AllUsageForms)
  \/ Restart

SpecRestock == InitStore /\ [][NextRestock]_vars

\* users of Kisiwani and of another clinic, moved between the two, and usage
\* recorded for each of them and for a user that is not stored
KisiwaniUserForms == [jina : {"Asha", "Juma"}, description : {""}, clinicId : {"C001", "C002"}]

KisiwaniTransferForms == [mtumiajiId : {"u1", "u2"}, newClinicId : {"C001", "C002"}]

KisiwaniUsageForms ==
  [mtumiajiId : {"u1", "u2", "u9"}, dawaList : {<<Confirmed("m1", "1")>>}]

NextKisiwani ==
  \/ AddMedicine(OneMedicineForm)
  \/ AddUser(KisiwaniUserForms)
  \/ TransferUser(KisiwaniTransferForms)
  \/ RecordUsage(KisiwaniUsageForms)
  \/ DiskChange

SpecKisiwani == InitKisiwani /\ [][NextKisiwani]_vars

(***************************************************************************)
(* The admin router, src/routes/admin.js.  Its readSheet and writeSheet    *)
(* are those of the spreadsheet iterations.  req.session.admin is absent   *)
(* or holds a role and a clinic; "undefined" stands for a property that is *)
(* not there.                                                              *)
(***************************************************************************)
NoAdmin == [admin |-> <<>>]

Admin(role, clinic) == [admin |-> <<[role |-> role, clinic |-> clinic]>>]

\* req.session && req.session.admin && req.session.admin.role === 'superadmin'
isSuperAdmin(session) ==
  Len(session.admin) > 0 /\ session.admin[1].role = "superadmin"

\* user.clinic
UserClinic(user) == IF "clinic" \in DOMAIN user THEN user.clinic ELSE "undefined"

\* a list that is the same for every admin
GetAdminUsers_Unfiltered(v, d, f, session) ==
  LET allUsers == Rows(v, d, f, "WATUMIAJI")
  IN IF Len(session.admin) = 0 /\ ~isSuperAdmin(session) THEN Respond(f, "error500")
     ELSE [file |-> f,
           resp |-> [kind |-> "render", wrote |-> "none", table |-> "", written |-> <<>>,
                     appended |-> <<>>, view |-> <<[users |-> allUsers]>>]]

\* GET /admin/users, src/routes/admin.js:12-28; without req.session.admin
\* the read of its clinic throws and the error goes to next()
GetAdminUsers(v, d, f, session) ==
  LET allUsers == Rows(v, d, f, "WATUMIAJI")
      users == IF isSuperAdmin(session) THEN allUsers
               ELSE SelectSeq(allUsers,
                              LAMBDA user : UserClinic(user) = session.admin[1].clinic)
  IN IF Len(session.admin) = 0 /\ ~isSuperAdmin(session) THEN Respond(f, "error500")
     ELSE [file |-> f,
           resp |-> [kind |-> "render", wrote |-> "none", table |-> "", written |-> <<>>,
                     appended |-> <<>>, view |-> <<[users |-> users]>>]]

\* POST /admin/transfer, src/routes/admin.js:31-49
PostAdminTransfer(v, d, f, userId, newClinic) ==
  LET users == Rows(v, d, f, "WATUMIAJI")
      userIndex == FindById(users, userId)
  IN IF userIndex = 0 THEN Respond(f, "not_found")
     ELSE WriteThen(v, d, f, "WATUMIAJI",
            [users EXCEPT ![userIndex] =
               [k \in DOMAIN users[userIndex] \cup {"clinic"} |->
                  IF k = "clinic" THEN newClinic ELSE users[userIndex][k]]],
            <<>>, "redirect")

AdminUsers(Inputs) ==
  /\ Serving
  /\ \E session \in Inputs :
       Handled(GetAdminUsers(variant, disk, file, session),
               [op |-> "adminUsers", session |-> session])

AdminTransfer(Inputs) ==
  /\ Serving
  /\ \E i \in Inputs :
       Handled(PostAdminTransfer(variant, disk, file, i.userId, i.newClinic),
               [op |-> "adminTransfer", userId |-> i.userId, newClinic |-> i.newClinic])

\* a superadmin, admins of two clinics, an admin without a clinic, nobody
Sessions ==
  {NoAdmin} \cup {Admin(role, clinic) : role \in {"superadmin", "admin"},
                                       clinic \in {"C001", "C002", "undefined"}}

\* the admins that are not superadmin and have a clinic in their session
OtherAdmins ==
  {session \in Sessions : /\ Len(session.admin) > 0
                          /\ ~isSuperAdmin(session)
                          /\ session.admin[1].clinic # "undefined"}

AdminTransferRequests == [userId : {"u1", "u2", "u9"}, newClinic : {"C001", "C002"}]

NextAdminUsers ==
  \/ AddUser(KisiwaniUserForms)
  \/ AdminTransfer(AdminTransferRequests)
  \/ AdminUsers(Sessions)

SpecAdminUsers == InitStore /\ [][NextAdminUsers]_vars

\* the five mutating requests, one at a time, on storage that can fail
NextAll ==
  \/ AddMedicine(OneMedicineForm)
  \/ Restock(AllRestockForms)
  \/ AddUser(ValidUserForms)
  \/ TransferUser(AllTransferForms)
  \/ RecordUsage(AllUsageForms)
  \/ DiskChange

SpecAll == InitStore /\ [][NextAll]_vars

\* usage dated today, in an earlier month and in a later month, and the
\* report asked for in every mode, with and without a range
ReportUsageForms ==
  [mtumiajiId : {"u1"},
   dawaList : {<<Confirmed("m1", "1")>>,
               <<Item("m1", "1", "true", "2024-01-05")>>,
               <<Item("m1", "1", "true", "2024-04-02")>>}]

ReportQueries ==
  [mode : {"", "day", "week", "month"}, from : {"", "2024-01-05"}, to : {"", "2024-01-05"}]

NextReport ==
  \/ AddMedicine(OneMedicineForm)
  \/ AddUser(ValidUserForms)
  \/ RecordUsage(ReportUsageForms)
  \/ Report(ReportQueries)

SpecReport == InitStore /\ [][NextReport]_vars

\* two users with usage of their own, and users deleted
DeleteUserForms == [jina : {"Asha", "Juma"}, description : {""}, clinicId : {"C001"}]

DeleteUsageForms == [mtumiajiId : {"u1", "u2"}, dawaList : {<<Confirmed("m1", "1")>>}]

NextDelete ==
  \/ AddMedicine(OneMedicineForm)
  \/ AddUser(DeleteUserForms)
  \/ RecordUsage(DeleteUsageForms)
  \/ DeleteUser({"u1", "u2", "u9"})
  \/ DiskChange

SpecDelete == InitStore /\ [][NextDelete]_vars

\* two medicines and two users, users moved to another clinic, and the
\* statistics page
AdminUsageForms ==
  [mtumiajiId : {"u1", "u2"},
   dawaList : {<<Confirmed("m1", "1")>>, <<Confirmed("m2", "2")>>}]

AdminTransferForms == [mtumiajiId : {"u2"}, newClinicId : {"C001", "C002"}]

NextAdmin ==
  \/ AddMedicine(ValidMedicineForms)
  \/ AddUser(DeleteUserForms)
  \/ TransferUser(AdminTransferForms)
  \/ RecordUsage(AdminUsageForms)
  \/ AdminStatistics({"", "m1", "m9"})
  \/ Dashboard

SpecAdmin == InitKisiwani /\ [][NextAdmin]_vars

(***************************************************************************)
(* The lowdb iteration, src/app.js:1-269.  One Low object is shared by all *)
(* requests; db.read() and db.write() are asynchronous, so a handler gives *)
(* way to other requests at each await.  low.data is db.data, low.writes   *)
(* the writes handed to the file writer (the first is in flight, the ones  *)
(* that arrive meanwhile are written together, last data wins), and        *)
(* low.calls the position of every request.                                *)
(***************************************************************************)
LowProcs == 1..MaxLowReqs

LowForms == [jina : {"Panadol", "PANADOL", "Asprin"}, aina : {"Vidonge"}, kiasi : {"2", "0"}]

emptyData == [dawa |-> <<>>, watumiaji |-> <<>>, matumizi |-> <<>>]

LowCall(pc, form, seen, row, kind) ==
  [pc |-> pc, form |-> form, seen |-> seen, row |-> row, kind |-> kind]

LowIdleCall == LowCall("idle", <<>>, <<>>, <<>>, "")

\* initializeDatabase(), src/app.js:20-52: db.json is created and read
InitLow ==
  /\ variant = "lowdb"
  /\ disk = "ok"
  /\ file = [exists |-> TRUE, data |-> emptyData]
  /\ req = [op |-> "init"]
  /\ resp = Respond(file, "started").resp
  /\ low = [data |-> emptyData, writes |-> <<>>, issued |-> {},
            calls |-> [p \in LowProcs |-> LowIdleCall]]

\* !jina || !aina || !kiasi || isNaN(kiasi) || Number(kiasi) <= 0
LowInvalid(form) ==
  form.jina = "" \/ form.aina = "" \/ form.kiasi = ""
  \/ IsNaN(form.kiasi) \/ JsNumber(form.kiasi) <= 0

\* db.data.dawa.some(d => d.jina === jina)
LowDuplicate(dawa, jina) == \E i \in 1..Len(dawa) : dawa[i].jina = jina

\* the writer takes a write at once when idle, otherwise it joins the writes
\* that wait for the one in flight
LowEnqueue(writes, p) ==
  IF Len(writes) = 0 THEN <<<<p>>>>
  ELSE IF Len(writes) = 1 THEN <<writes[1], <<p>>>>
  ELSE <<writes[1], Append(writes[2], p)>>

\* a write that adds to the file what the text has more than the file
LowWritten_Merge(current, text) ==
  [current EXCEPT !.dawa =
     current.dawa \o SelectSeq(text.dawa, LAMBDA m : m \notin Range(current.dawa))]

\* adapter.write(JSON.stringify(db.data)): the file holds the text written
LowWritten(current, text) ==
  text

\* a request arrives: validation, then await db.read()
LowSubmit(p) ==
  /\ low.calls[p].pc = "idle"
  /\ \E form \in LowForms :
       /\ low' = [low EXCEPT !.calls[p] =
                    IF LowInvalid(form) THEN LowCall("done", form, <<>>, <<>>, "invalid")
                    ELSE LowCall("reading", form, <<>>, <<>>, "")]
       /\ req' = [op |-> "addMedicine", by |-> p, jina |-> form.jina, kiasi |-> form.kiasi]
       /\ resp' = Respond(file, IF LowInvalid(form) THEN "invalid" ELSE "pending").resp
  /\ UNCHANGED <<variant, disk, file>>

\* db.read() resolves: db.data is what the file holds; the handler checks
\* for a duplicate, pushes the medicine and calls db.write()
LowReadDone(p) ==
  LET call == low.calls[p]
      data == file.data
      id == NanoId("m", low.issued)
      row == [id |-> id, jina |-> call.form.jina, aina |-> call.form.aina,
              kiasi |-> JsNumber(call.form.kiasi)]
      pushed == [data EXCEPT !.dawa = Append(data.dawa, row)]
  IN /\ call.pc = "reading"
     /\ IF LowDuplicate(data.dawa, call.form.jina)
        THEN /\ low' = [low EXCEPT !.data = data,
                                   !.calls[p] = LowCall("done", call.form, data.dawa,
                                                        <<>>, "duplicate")]
             /\ resp' = Respond(file, "duplicate").resp
        ELSE /\ low' = [low EXCEPT !.data = pushed,
                                   !.issued = @ \cup {id},
                                   !.writes = LowEnqueue(@, p),
                                   !.calls[p] = LowCall("writing", call.form, data.dawa,
                                                        <<[text |-> pushed, new |-> row]>>, "")]
             /\ resp' = Respond(file, "pending").resp
     /\ req' = [op |-> "readDone", by |-> p]
     /\ UNCHANGED <<variant, disk, file>>

\* the write in flight lands: the file holds the text of the last write it
\* stands for, and every request waiting on it redirects
LowWriteDone ==
  /\ Len(low.writes) > 0
  /\ LET group == low.writes[1]
         last == group[Len(group)]
     IN /\ file' = [file EXCEPT !.data = LowWritten(@, low.calls[last].row[1].text)]
        /\ low' = [low EXCEPT !.writes = Tail(@),
                              !.calls = [p \in LowProcs |->
                                 IF p \in Range(group)
                                 THEN [low.calls[p] EXCEPT !.pc = "done", !.kind = "redirect"]
                                 ELSE low.calls[p]]]
        /\ req' = [op |-> "writeDone", by |-> last]
        /\ resp' = Respond(file', "redirect").resp
  /\ UNCHANGED <<variant, disk>>

NextLow ==
  \/ \E p \in LowProcs : LowSubmit(p)
  \/ \E p \in LowProcs : LowReadDone(p)
  \/ LowWriteDone

SpecLow == InitLow /\ [][NextLow]_vars

\* POST /matumizi/sajili of the lowdb iteration, src/app.js:183-234, takes one
\* medicine and one quantity.  Number(kiasi) is counted in halves, so that
\* the text '1.5' has a value: Halves("1") is 2 and Halves("1.5") is 3.
Halves(t) ==
  CASE t = "" -> 0
    [] t = "abc" -> NaN
    [] t = "0" -> 0
    [] t = "-1" -> 0 - 2
    [] t = "1" -> 2
    [] t = "1.5" -> 3
    [] t = "2" -> 4

LowUsageForms ==
  [mtumiajiId : {"u1"}, dawaId : {"m1", "m9"}, kiasi : {"1", "1.5", "0", "abc"},
   imethibitishwa : {"on", ""}]

\* !mtumiajiId || !dawaId || !kiasi || isNaN(kiasi) || Number(kiasi) <= 0
LowUsageInvalid(form) ==
  form.mtumiajiId = "" \/ form.dawaId = "" \/ form.kiasi = ""
  \/ Halves(form.kiasi) = NaN \/ Halves(form.kiasi) <= 0

\* db.data.matumizi.filter(m => m.dawaId === dawaId)
\*   .reduce((sum, m) => sum + Number(m.kiasi), 0), in halves
RECURSIVE LowUsedAmount(_, _)
LowUsedAmount(matumizi, dawaId) ==
  IF Len(matumizi) = 0 THEN 0
  ELSE (IF matumizi[1].dawaId = dawaId THEN matumizi[1].kiasi ELSE 0)
       + LowUsedAmount(Tail(matumizi), dawaId)

\* a request to record usage arrives: the confirmation and the validation,
\* then await db.read()
LowSubmitUsage(p) ==
  /\ low.calls[p].pc = "idle"
  /\ \E form \in LowUsageForms :
       LET kind == IF form.imethibitishwa = "" THEN "redirect"
                   ELSE IF LowUsageInvalid(form) THEN "invalid" ELSE "pending"
       IN /\ low' = [low EXCEPT !.calls[p] =
                       IF kind = "pending" THEN LowCall("readingUsage", form, <<>>, <<>>, "")
                       ELSE LowCall("done", form, <<>>, <<>>, kind)]
          /\ req' = [op |-> "recordUsage", by |-> p, dawaId |-> form.dawaId,
                     kiasi |-> form.kiasi, imethibitishwa |-> form.imethibitishwa]
          /\ resp' = Respond(file, kind).resp
  /\ UNCHANGED <<variant, disk, file>>

\* db.read() resolves: the handler looks the medicine up, compares the
\* quantity with what remains, pushes the usage event and calls db.write()
LowUsageReadDone(p) ==
  LET call == low.calls[p]
      data == file.data
      hits == {i \in 1..Len(data.dawa) : data.dawa[i].id = call.form.dawaId}
      dawa == data.dawa[CHOOSE i \in hits : \A j \in hits : i <= j]
      remaining == 2 * dawa.kiasi - LowUsedAmount(data.matumizi, call.form.dawaId)
      id == NanoId("e", low.issued)
      row == [id |-> id, mtumiajiId |-> call.form.mtumiajiId, dawaId |-> call.form.dawaId,
              kiasi |-> Halves(call.form.kiasi), tarehe |-> NowDate]
      pushed == [data EXCEPT !.matumizi = Append(data.matumizi, row)]
      kind == IF hits = {} THEN "not_found"
              ELSE IF remaining < Halves(call.form.kiasi) THEN "stock_error"
              ELSE "pending"
  IN /\ call.pc = "readingUsage"
     /\ Len(data.matumizi) < MaxEvents
     /\ IF kind = "pending"
        THEN low' = [low EXCEPT !.data = pushed,
                                !.issued = @ \cup {id},
                                !.writes = LowEnqueue(@, p),
                                !.calls[p] = LowCall("writing", call.form, data.matumizi,
                                                     <<[text |-> pushed, new |-> row]>>, "")]
        ELSE low' = [low EXCEPT !.data = data,
                                !.calls[p] = LowCall("done", call.form, data.matumizi,
                                                     <<>>, kind)]
     /\ req' = [op |-> "readDone", by |-> p]
     /\ resp' = Respond(file, kind).resp
     /\ UNCHANGED <<variant, disk, file>>

NextLowUsage ==
  \/ \E p \in LowProcs : LowSubmit(p)
  \/ \E p \in LowProcs : LowReadDone(p)
  \/ \E p \in LowProcs : LowSubmitUsage(p)
  \/ \E p \in LowProcs : LowUsageReadDone(p)
  \/ LowWriteDone

SpecLowUsage == InitLow /\ [][NextLowUsage]_vars

\* db.json already holds one medicine with two units on hand
stockedData == [emptyData EXCEPT !.dawa = <<[id |-> "m1", jina |-> "Panadol",
                                             aina |-> "Vidonge", kiasi |-> 2]>>]

InitLowStocked ==
  /\ variant = "lowdb"
  /\ disk = "ok"
  /\ file = [exists |-> TRUE, data |-> stockedData]
  /\ req = [op |-> "init"]
  /\ resp = Respond(file, "started").resp
  /\ low = [data |-> stockedData, writes |-> <<>>, issued |-> {"m1"},
            calls |-> [p \in LowProcs |-> LowIdleCall]]

\* requests to record usage that arrive while others are in flight
NextLowRace ==
  \/ \E p \in LowProcs : LowSubmitUsage(p)
  \/ \E p \in LowProcs : LowUsageReadDone(p)
  \/ LowWriteDone

SpecLowRace == InitLowStocked /\ [][NextLowRace]_vars

(***************************************************************************)
(* Start of the lowdb iteration: initializeDatabase(), src/app.js:20-52,   *)
(* one step per await.  file.json is what db.json holds when it exists:    *)
(* text that is not JSON, the JSON null, a JSON number, a JSON object      *)
(* without the collections, or the collections.  low.pc is the position of *)
(* the function, low.retries its counter, low.attempts the passes through  *)
(* the try block begun, low.failures the passes that threw, and low.data   *)
(* is db.data.                                                             *)
(***************************************************************************)
Json(kind, value) == [kind |-> kind, value |-> value]

oneMedicine ==
  [dawa |-> <<[id |-> "m1", jina |-> "Panadol", aina |-> "Vidonge", kiasi |-> 2]>>,
   watumiaji |-> <<>>, matumizi |-> <<>>]

\* what db.json can hold before the program starts
JsonTexts ==
  {Json("corrupt", emptyData), Json("null", emptyData), Json("number", emptyData),
   Json("object", emptyData), Json("data", emptyData), Json("data", oneMedicine)}

\* let retries = 3
LowInitState(pc, retries, attempts, failures, data) ==
  [pc |-> pc, retries |-> retries, attempts |-> attempts, failures |-> failures,
   data |-> data]

InitBoot ==
  /\ variant = "lowdb"
  /\ disk \in {"ok", "readonly", "unreadable"}
  /\ file \in [exists : {FALSE}, json : {Json("null", emptyData)}]
              \cup [exists : {TRUE}, json : JsonTexts]
  /\ req = [op |-> "boot"]
  /\ resp = Respond(file, "none").resp
  /\ low = LowInitState("access", 3, 1, 0, Json("null", emptyData))

\* !db.data || typeof db.data !== 'object'
LowNoData(data) == data.kind \in {"null", "number"}

\* catch (error): retries--; if (retries === 0) throw error; otherwise wait
LowInitCatch(st) ==
  [st EXCEPT !.retries = @ - 1, !.failures = @ + 1,
             !.pc = IF st.retries - 1 = 0 THEN "threw" ELSE "sleep"]

\* one await of initializeDatabase() settles
LowInitAwait(st, d, f) ==
  CASE st.pc = "access" ->
         \* await fs.access(dbPath)
         [file |-> f, low |-> [st EXCEPT !.pc = IF f.exists THEN "read" ELSE "create"]]
    [] st.pc = "create" ->
         \* await fs.writeFile(dbPath, JSON.stringify({ dawa: [], ... }))
         IF d = "ok"
         THEN [file |-> [exists |-> TRUE, json |-> Json("data", emptyData)],
               low |-> [st EXCEPT !.pc = "read"]]
         ELSE [file |-> f, low |-> LowInitCatch(st)]
    [] st.pc = "read" ->
         \* await db.read(), then the test of db.data
         IF d = "unreadable" \/ f.json.kind = "corrupt"
         THEN [file |-> f, low |-> LowInitCatch(st)]
         ELSE IF LowNoData(f.json)
         THEN [file |-> f, low |-> [st EXCEPT !.pc = "write",
                                              !.data = Json("data", emptyData)]]
         ELSE [file |-> f, low |-> [st EXCEPT !.pc = "returned", !.data = f.json]]
    [] st.pc = "write" ->
         \* await db.write()
         IF d = "ok"
         THEN [file |-> [exists |-> TRUE, json |-> st.data],
               low |-> [st EXCEPT !.pc = "returned"]]
         ELSE [file |-> f, low |-> LowInitCatch(st)]
    [] st.pc = "sleep" ->
         \* await new Promise(resolve => setTimeout(resolve, 500)), and the
         \* loop enters the try block again
         [file |-> f, low |-> [st EXCEPT !.pc = "access", !.attempts = @ + 1]]

LowInitStep ==
  /\ low.pc \in {"access", "create", "read", "write", "sleep"}
  /\ \E out \in {LowInitAwait(low, disk, file)} :
       /\ file' = out.file
       /\ low' = out.low
       /\ req' = [op |-> low.pc]
       /\ resp' = Respond(file, out.low.pc).resp
  /\ UNCHANGED <<variant, disk>>

NextLowInit ==
  \/ LowInitStep
  \/ DiskChange

SpecLowInit == InitBoot /\ [][NextLowInit]_vars

\* the event loop runs every settled await of the function
SpecLowInitFair == SpecLowInit /\ WF_vars(LowInitStep)

(***************************************************************************)
(* The first start.  The data directory is as the operator left it: no     *)
(* workbook, a workbook of an earlier iteration that lacks sheets, one     *)
(* whose Clinics sheet has its header only, or one with clinics of its own.*)
(***************************************************************************)
ownClinics == <<[id |-> "C009", jina |-> "Mpya"]>>

FoundFiles(v) ==
  {NoFile,
   [exists |-> TRUE, sheets |-> [n \in {"Dawa"} |-> AoaToSheet(SHEETS(v).DAWA.headers)]],
   [exists |-> TRUE, sheets |-> NewWorkbook(v)],
   [exists |-> TRUE,
    sheets |-> [NewWorkbook(v) EXCEPT
                  !["Clinics"] = JsonToSheet(ownClinics, SHEETS(v).CLINICS.headers)]]}

\* the process has been launched and initializeDatabase() has not run yet
InitFound ==
  /\ variant \in Variants
  /\ disk \in {"ok", "readonly", "unreadable"}
  /\ file \in FoundFiles(variant)
  /\ req = [op |-> "boot"]
  /\ resp = Respond(file, "none").resp
  /\ low = LowIdle

\* startApp(): initializeDatabase() and then app.listen
Start ==
  LET r == initializeDatabase(variant, disk, file)
  IN /\ req.op = "boot"
     /\ file' = r.file
     /\ resp' = Respond(r.file, IF r.threw THEN "exit" ELSE "started").resp
     /\ req' = [op |-> "init"]
     /\ UNCHANGED <<variant, disk, low>>

\* requests are served once the start is over
Started == req.op # "boot" /\ resp.kind # "exit"

NextStart ==
  \/ Start
  \/ Started /\ Restart
  \/ Started /\ AddMedicine(OneMedicineForm)
  \/ Started /\ AddUser(ValidUserForms)
  \/ Started /\ DiskChange

SpecStart == InitFound /\ [][NextStart]_vars

(***************************************************************************)
(* What the stored tables say, read the way the handlers read them.        *)
(***************************************************************************)
Table(f, sheetKey) == Rows(variant, "ok", f, sheetKey)

\* sum of quantityUsed over the stored usage events of a medicine
UsedOf(f, dawaId) == TotalUsed(Table(f, "MATUMIZI"), dawaId)

\* quantityOnHand of the stored medicine with this id
OnHand(f, dawaId) ==
  NumOr0(Field(Table(f, "DAWA")[FindById(Table(f, "DAWA"), dawaId)], "kiasi"))

Known(f, dawaId) == FindById(Table(f, "DAWA"), dawaId) # 0

\* a confirmed line item that names no stored medicine or asks for more
\* than remains of it
OverStock(f, item) ==
  /\ item.confirmed = "true"
  /\ \/ ~Known(f, item.id)
     \/ /\ ParseInt(item.kiasi) # NaN
        /\ ParseInt(item.kiasi) > OnHand(f, item.id) - UsedOf(f, item.id)

\* a confirmed line item with a valid quantity that the stock covers
Fits(f, item) ==
  /\ item.confirmed = "true"
  /\ Known(f, item.id)
  /\ ParseInt(item.kiasi) # NaN
  /\ ParseInt(item.kiasi) > 0
  /\ ParseInt(item.kiasi) <= OnHand(f, item.id) - UsedOf(f, item.id)

SomeOverStock(f, dawaList) == \E i \in 1..Len(dawaList) : OverStock(f, dawaList[i])

\* C1: for every medicine the recorded usage never exceeds quantityOnHand,
\* also when one recordUsage batch holds several confirmed line items for
\* the same medicine.
C1_UsageWithinStock ==
  \A i \in 1..Len(Table(file, "DAWA")) :
    UsedOf(file, Field(Table(file, "DAWA")[i], "id"))
      <= NumOr0(Field(Table(file, "DAWA")[i], "kiasi"))

\* C2 as stated: a recordUsage batch with a confirmed line item over the
\* remaining stock (or for an unknown medicine) is answered with the stock
\* error and leaves the usage table as it was.
C2_StockErrorNothingWritten ==
  [][(req'.op = "recordUsage" /\ SomeOverStock(file, req'.dawaList))
       => (resp'.kind = "stock_error"
           /\ Table(file', "MATUMIZI") = Table(file, "MATUMIZI"))]_vars

\* C2 amended: such a batch is never answered with the redirect and writes
\* nothing; the answer is the stock error unless the request has no user id
\* or a confirmed quantity that is not a positive integer, which are
\* rejected first.
C2_FailsNothingWritten ==
  [][(req'.op = "recordUsage" /\ SomeOverStock(file, req'.dawaList))
       => /\ resp'.kind \in {"stock_error", "no_user", "qty_error"}
          /\ resp'.wrote = "none"
          /\ Table(file', "MATUMIZI") = Table(file, "MATUMIZI")
          /\ (resp'.kind = "stock_error")
               <=> (req'.mtumiajiId # ""
                    /\ \A i \in 1..Len(req'.dawaList) : ~BadQuantity(req'.dawaList[i]))]_vars

\* a batch was refused with the stock error although one of its line items
\* fits, and usage recorded earlier is still stored
C2_Witness ==
  /\ req.op = "recordUsage"
  /\ resp.kind = "stock_error"
  /\ \E i \in 1..Len(req.dawaList) : Fits(file, req.dawaList[i])
  /\ Len(Table(file, "MATUMIZI")) > 0

\* every confirmed line item of the batch fits, and there is one
Sufficient(f, dawaList) ==
  /\ \E i \in 1..Len(dawaList) : dawaList[i].confirmed = "true"
  /\ \A i \in 1..Len(dawaList) : dawaList[i].confirmed = "true" => Fits(f, dawaList[i])

TransferThenUsage ==
  /\ req.op = "transferUser"
  /\ resp.kind = "redirect"
  /\ req'.op = "recordUsage"
  /\ req'.mtumiajiId = req.mtumiajiId
  /\ Sufficient(file, req'.dawaList)

\* C4 as stated: transferUser(u, c) followed by a recordUsage for u with
\* sufficient stock succeeds and every event it appends carries clinicId c.
C4_UsageAfterTransferSucceeds ==
  [][TransferThenUsage
       => /\ resp'.kind = "redirect"
          /\ Len(resp'.appended) > 0
          /\ \A i \in 1..Len(resp'.appended) : resp'.appended[i].clinicId = req.newClinicId]_vars

\* C4 amended: the recordUsage never stamps another clinic than c; it
\* succeeds and stamps c in the iterations without the Kisiwani restriction,
\* and in the Kisiwani iteration exactly when c is 'C001'.
C4_UsageAfterTransferStampsNewClinic ==
  [][TransferThenUsage
       => /\ \A i \in 1..Len(resp'.appended) : resp'.appended[i].clinicId = req.newClinicId
          /\ (resp'.kind = "redirect") <=> (variant # "kisiwani" \/ req.newClinicId = "C001")
          /\ resp'.kind = "redirect" => Len(resp'.appended) > 0
          /\ resp'.kind # "redirect" =>
               /\ resp'.kind = "not_kisiwani"
               /\ Table(file', "MATUMIZI") = Table(file, "MATUMIZI")]_vars

\* users are only ever added to C001, so an event stamped C002 was recorded
\* for a user after a transfer to C002
C4_Witness ==
  /\ req.op = "recordUsage"
  /\ resp.kind = "redirect"
  /\ Len(resp.appended) > 0
  /\ resp.appended[1].clinicId = "C002"
  /\ Field(Table(file, "WATUMIAJI")[FindById(Table(file, "WATUMIAJI"), req.mtumiajiId)],
           "clinicId") = "C002"

\* the stored medicine names, as written and lower-cased
StoredNames(f) ==
  {Field(Table(f, "DAWA")[i], "jina") : i \in 1..Len(Table(f, "DAWA"))}

LowerNames(f) == {ToLowerCase(n) : n \in StoredNames(f)}

\* an addMedicine form that passes the validation of every iteration
WellFormed(r) ==
  /\ Trim(r.jina) = r.jina
  /\ r.jina \notin {"", "Aina"}
  /\ r.aina # ""
  /\ ~IsNaN(r.kiasi)
  /\ JsNumber(r.kiasi) > 0

\* C3: an addMedicine whose name differs, ignoring case, from every stored
\* name is never rejected as a duplicate; one whose name differs only in
\* letter case from a stored name is rejected as a duplicate and leaves the
\* Medicines table (rows and quantities) as it was.
C3_DuplicateNameRejected ==
  [][(req'.op = "addMedicine" /\ WellFormed(req'))
       => /\ ToLowerCase(req'.jina) \notin LowerNames(file) => resp'.kind # "duplicate"
          /\ (ToLowerCase(req'.jina) \in LowerNames(file)
              /\ req'.jina \notin StoredNames(file)) =>
               /\ resp'.kind = "duplicate"
               /\ Table(file', "DAWA") = Table(file, "DAWA")]_vars

\* C7: starting the process again on a store that an earlier start created
\* and requests have changed leaves every table reading the same.
C7_InitIdempotent ==
  [][req'.op = "init"
       => \A k \in SheetKeys : Table(file', k) = Table(file, k)]_vars

\* a record cut to the declared columns of its table
Declared(sheetKey, rows) ==
  [i \in 1..Len(rows) |->
    [h \in Range(SHEETS(variant)[sheetKey].headers) |-> Field(rows[i], h)]]

\* C5: when a handler appends records to a table (read, concatenate,
\* writeSheet) and the write succeeds, readSheet afterwards returns the
\* records the table had before followed by the appended ones, in order and
\* with every declared column value as given.
C5_AppendRoundTrip ==
  [][(resp'.wrote = "ok" /\ Len(resp'.appended) > 0)
       => Declared(resp'.table, Table(file', resp'.table))
            = Declared(resp'.table, Table(file, resp'.table) \o resp'.appended)]_vars

\* C8: a handler whose writeSheet returned false never answers with the
\* success redirect.
C8_RedirectOnlyAfterWrite ==
  resp.wrote = "failed" => resp.kind # "redirect"

\* the file without one of its sheets
WithoutSheet(f, n) ==
  [f EXCEPT !.sheets = [m \in DOMAIN f.sheets \ {n} |-> f.sheets[m]]]

\* C9: readSheet raises nothing; it returns the empty sequence when the file
\* is missing or unreadable or the sheet is missing, and otherwise one record
\* per data row of the sheet whose fields are columns of the header row.
C9_ReadSheetNeverRaises ==
  \A k \in SheetKeys :
    LET n == SHEETS(variant)[k].name
        r == readSheet(variant, disk, file, k)
    IN /\ r.raised = FALSE
       /\ readSheet(variant, disk, NoFile, k) = [raised |-> FALSE, rows |-> <<>>]
       /\ readSheet(variant, disk, WithoutSheet(file, n), k) = [raised |-> FALSE, rows |-> <<>>]
       /\ IF disk = "unreadable" THEN r.rows = <<>>
          ELSE /\ Len(r.rows) = Len(file.sheets[n].rows)
               /\ \A i \in 1..Len(r.rows) :
                    /\ DOMAIN r.rows[i] \subseteq Range(file.sheets[n].hdr)
                    /\ \A h \in DOMAIN file.sheets[n].rows[i] :
                         ~Falsy(h, file.sheets[n].rows[i][h])
                           => r.rows[i][h] = file.sheets[n].rows[i][h]

\* the dashboard was asked for while the file holds medicines but cannot be
\* read: readSheet gave it empty tables
C9_Witness ==
  /\ disk = "unreadable"
  /\ req.op = "dashboard"
  /\ Len(file.sheets["Dawa"].rows) > 0
  /\ resp.kind = "render"
  /\ resp.view[1].dawa = <<>>

\* C10: writeSheet raises nothing and returns true or false; after true the
\* table reads as exactly the records given, its columns are the declared
\* ones in their order and no other sheet has changed; after false the file
\* is as it was.
C10_WriteSheetReplacesTable ==
  [][resp'.wrote # "none"
       => LET n == SHEETS(variant)[resp'.table].name
          IN /\ resp'.kind # "error500"
             /\ IF resp'.wrote = "ok"
                THEN /\ Table(file', resp'.table) = resp'.written
                     /\ file'.sheets[n].hdr = SHEETS(variant)[resp'.table].headers
                     /\ \A m \in DOMAIN file.sheets \ {n} : file'.sheets[m] = file.sheets[m]
                ELSE file' = file]_vars

\* both requests were answered with the redirect after reading the same
\* contents of the file
BothRedirected(p, q) ==
  /\ p # q
  /\ low.calls[p].pc = "done" /\ low.calls[p].kind = "redirect"
  /\ low.calls[q].pc = "done" /\ low.calls[q].kind = "redirect"
  /\ low.calls[p].seen = low.calls[q].seen

\* C6: the append is not atomic.  Two add requests that both read the table
\* before either of their writes landed are both answered with the success
\* redirect, and the table never holds the rows of both: one is lost.
C6_AppendNotAtomic ==
  \A p, q \in LowProcs :
    BothRedirected(p, q)
      => ~(low.calls[p].row[1].new \in Range(file.data.dawa)
           /\ low.calls[q].row[1].new \in Range(file.data.dawa))

\* two requests for different medicines were both answered with the
\* redirect and the table holds the row of only one of them
C6_Witness ==
  \E p, q \in LowProcs :
    /\ BothRedirected(p, q)
    /\ low.calls[p].form.jina # low.calls[q].form.jina
    /\ low.writes = <<>>
    /\ low.calls[q].row[1].new \in Range(file.data.dawa)
    /\ low.calls[p].row[1].new \notin Range(file.data.dawa)
    /\ Len(file.data.dawa) = Len(low.calls[q].seen) + 1

\* the ids of the stored clinics
ClinicIds(f) == {Field(Table(f, "CLINICS")[i], "id") : i \in 1..Len(Table(f, "CLINICS"))}

\* C11: addUser answers with the redirect only for the id of a stored
\* clinic; with any other clinicId the Users table is unchanged, and every
\* stored user's clinicId is the id of a stored clinic afterwards.
C11_UserClinicExists ==
  [][req'.op = "addUser"
       => /\ resp'.kind = "redirect" => req'.clinicId \in ClinicIds(file)
          /\ req'.clinicId \notin ClinicIds(file)
               => Table(file', "WATUMIAJI") = Table(file, "WATUMIAJI")
          /\ \A i \in 1..Len(Table(file', "WATUMIAJI")) :
               Field(Table(file', "WATUMIAJI")[i], "clinicId") \in ClinicIds(file')]_vars

\* C12: transferUser leaves the Users table unchanged and does not redirect
\* when the user id or the clinic id is not stored; otherwise the user's
\* clinicId becomes newClinicId and nothing else in the table changes.
C12_TransferChecksUserAndClinic ==
  [][req'.op = "transferUser"
       => LET before == Table(file, "WATUMIAJI")
              after == Table(file', "WATUMIAJI")
              index == FindById(before, req'.mtumiajiId)
          IN IF index = 0 \/ req'.newClinicId \notin ClinicIds(file)
             THEN resp'.kind # "redirect" /\ after = before
             ELSE /\ resp'.kind = "redirect"
                  /\ Len(after) = Len(before)
                  /\ \A i \in 1..Len(before) :
                       \A h \in DOMAIN before[i] :
                         after[i][h] = IF i = index /\ h = "clinicId"
                                       THEN req'.newClinicId ELSE before[i][h]]_vars

\* an addMedicine form the claim wants rejected: blank name or category
\* after trimming, or a quantity that is not a positive number
NotAcceptable(r) ==
  \/ Trim(r.jina) = ""
  \/ Trim(r.aina) = ""
  \/ r.kiasi = ""
  \/ IsNaN(r.kiasi)
  \/ JsNumber(r.kiasi) <= 0

\* C13: addMedicine rejects, without changing the Medicines table, every
\* request whose quantity is not a positive integer or whose name or
\* category is blank after trimming, and the medicine an accepted request
\* stores has a non-blank name, a non-blank category and a quantity >= 0.
C13_InvalidMedicineRejected ==
  [][req'.op = "addMedicine"
       => /\ NotAcceptable(req')
               => /\ resp'.kind # "redirect"
                  /\ Table(file', "DAWA") = Table(file, "DAWA")
          /\ \A i \in 1..Len(resp'.appended) :
               /\ Trim(resp'.appended[i].jina) # ""
               /\ Trim(resp'.appended[i].aina) # ""
               /\ resp'.appended[i].kiasi >= 0]_vars

\* s is the beginning of t
IsPrefix(s, t) == Len(s) <= Len(t) /\ \A i \in 1..Len(s) : t[i] = s[i]

\* C14: UsageEvents is append-only.  Every request leaves the stored usage
\* events as they were, in their order; recordUsage only adds events after
\* them, and the other requests leave the table unchanged.
C14_UsageAppendOnly ==
  [][/\ IsPrefix(Table(file, "MATUMIZI"), Table(file', "MATUMIZI"))
     /\ IsPrefix(file.sheets["Matumizi"].rows, file'.sheets["Matumizi"].rows)
     /\ req'.op = "recordUsage"
          => Len(Table(file', "MATUMIZI"))
               \in {Len(Table(file, "MATUMIZI")),
                    Len(Table(file, "MATUMIZI")) + Len(resp'.appended)}
     /\ req'.op \in {"addMedicine", "addUser", "restock", "transferUser"}
          => file'.sheets["Matumizi"] = file.sheets["Matumizi"]]_vars

\* a second batch was appended after the events of an earlier one, with a
\* restock in between
C14_Witness ==
  /\ req.op = "recordUsage"
  /\ resp.wrote = "ok"
  /\ Len(Table(file, "MATUMIZI")) > Len(resp.appended)
  /\ Len(resp.appended) > 0
  /\ \E i \in 1..Len(Table(file, "DAWA")) : Field(Table(file, "DAWA")[i], "kiasi") = 3

\* C15: no request lowers the quantityOnHand of a stored medicine or removes
\* the medicine, and recordUsage leaves the Medicines table unchanged.
C15_QuantityNeverLowered ==
  [][/\ \A i \in 1..Len(Table(file, "DAWA")) :
          /\ i <= Len(Table(file', "DAWA"))
          /\ Field(Table(file', "DAWA")[i], "id") = Field(Table(file, "DAWA")[i], "id")
          /\ NumOr0(Field(Table(file', "DAWA")[i], "kiasi"))
               >= NumOr0(Field(Table(file, "DAWA")[i], "kiasi"))
     /\ req'.op \in {"recordUsage", "addUser", "transferUser"}
          => file'.sheets["Dawa"] = file.sheets["Dawa"]]_vars

\* a medicine was restocked after usage of it had been recorded, and its
\* quantityOnHand is the sum of what was added
C15_Witness ==
  /\ req.op = "restock"
  /\ resp.wrote = "ok"
  /\ UsedOf(file, "m1") > 0
  /\ OnHand(file, "m1") = 3

\* the events a request has added to the stored table
AddedEvents ==
  SubSeq(Table(file', "MATUMIZI"), Len(Table(file, "MATUMIZI")) + 1,
         Len(Table(file', "MATUMIZI")))

\* C16: a recordUsage that succeeded has added one event per confirmed line
\* item, in line-item order and none for the others; each carries the line
\* item's medicine id and quantity, the user's id and the user's name, notes
\* and clinicId as stored.
C16_OneEventPerConfirmedItem ==
  [][(req'.op = "recordUsage" /\ resp'.kind = "redirect" /\ resp'.wrote = "ok")
       => LET confirmed == SelectSeq(req'.dawaList, IsConfirmed)
              watumiaji == Table(file', "WATUMIAJI")
              mtumiaji == watumiaji[FindById(watumiaji, req'.mtumiajiId)]
          IN /\ Len(AddedEvents) = Len(confirmed)
             /\ Len(confirmed) > 0
             /\ \A i \in 1..Len(AddedEvents) :
                  /\ AddedEvents[i].dawaId = confirmed[i].id
                  /\ AddedEvents[i].kiasi = ParseInt(confirmed[i].kiasi)
                  /\ AddedEvents[i].mtumiajiId = req'.mtumiajiId
                  /\ AddedEvents[i].mtumiajiJina = Field(mtumiaji, "jina")
                  /\ AddedEvents[i].maelezo = Field(mtumiaji, "maelezo")
                  /\ AddedEvents[i].clinicId = Field(mtumiaji, "clinicId")]_vars

\* a batch with an unconfirmed and a confirmed line item was recorded for a
\* user who had been transferred, and one event was added
C16_Witness ==
  /\ req.op = "recordUsage"
  /\ resp.kind = "redirect"
  /\ resp.wrote = "ok"
  /\ \E i \in 1..Len(req.dawaList) : ~IsConfirmed(req.dawaList[i])
  /\ Len(resp.appended) = 1
  /\ Table(file, "MATUMIZI")[Len(Table(file, "MATUMIZI"))].clinicId = "C002"

\* the calendar month of a time of 2024, January being 1
MonthOf(h) ==
  CASE h < 744 -> 1
    [] h >= 744 /\ h < 1440 -> 2
    [] h >= 1440 /\ h < 2184 -> 3
    [] h >= 2184 -> 4

InCurrentMonth(tarehe) ==
  GetTime(tarehe) # NaN /\ MonthOf(GetTime(tarehe)) = MonthOf(GetTime(NowIso))

\* the stored events of one user that are dated in the current month on the
\* given calendar day
MonthEvents(f, userId, day) ==
  {k \in 1..Len(Table(f, "MATUMIZI")) :
     /\ Field(Table(f, "MATUMIZI")[k], "mtumiajiId") = userId
     /\ InCurrentMonth(Field(Table(f, "MATUMIZI")[k], "tarehe"))
     /\ FormatDate(Field(Table(f, "MATUMIZI")[k], "tarehe")) = day}

\* the calendar days the stored events fall on
EventDays(f) ==
  {FormatDate(Field(Table(f, "MATUMIZI")[k], "tarehe")) : k \in 1..Len(Table(f, "MATUMIZI"))}

\* C17: the report of mode 'month', with or without from/to, holds for every
\* listed user exactly the events dated in the current calendar month, each
\* once under the calendar day of its timestamp, and no other event.
C17_MonthReportIsCurrentMonth ==
  (req.op = "report" /\ req.mode = "month") =>
    LET users == ListedUsers(variant, Table(file, "WATUMIAJI"))
    IN /\ Len(resp.view) = Len(users)
       /\ \A i \in 1..Len(users) :
            /\ \A day \in DOMAIN resp.view[i].matumiziByDate :
                 Len(resp.view[i].matumiziByDate[day])
                   = Cardinality(MonthEvents(file, Field(users[i], "id"), day))
            /\ \A day \in EventDays(file) :
                 MonthEvents(file, Field(users[i], "id"), day) # {}
                   => day \in DOMAIN resp.view[i].matumiziByDate

\* the dashboard view shows the stored medicines, one row each, with what
\* was used and what remains, and the flag exactly when there is none
DashboardShows(f, view) ==
  /\ Len(view.dawa) = Len(Table(f, "DAWA"))
  /\ \A i \in 1..Len(Table(f, "DAWA")) :
       /\ view.dawa[i].id = Field(Table(f, "DAWA")[i], "id")
       /\ view.dawa[i].jumlaMatumizi = UsedOf(f, Field(Table(f, "DAWA")[i], "id"))
       /\ view.dawa[i].kilichobaki
            = NumOr0(Field(Table(f, "DAWA")[i], "kiasi"))
              - UsedOf(f, Field(Table(f, "DAWA")[i], "id"))
  /\ view.error <=> Len(Table(f, "DAWA")) = 0

\* C18 as stated: the dashboard lists every stored medicine once with used
\* the sum of its usage events and remaining quantityOnHand minus used, sets
\* the empty-data flag exactly when there are no medicines, and changes no
\* table.
C18_DashboardShowsStock ==
  [][req'.op = "dashboard" => (file' = file /\ DashboardShows(file', resp'.view[1]))]_vars

\* C18 amended: that holds while the workbook can be read; while it cannot,
\* the dashboard is the empty list with the flag set, whatever is stored.
\* In both cases no table changes.
C18_DashboardShowsWhatIsRead ==
  [][req'.op = "dashboard" =>
       /\ file' = file
       /\ IF disk' = "unreadable"
          THEN resp'.view[1].dawa = <<>> /\ resp'.view[1].error
          ELSE DashboardShows(file', resp'.view[1])]_vars

\* a dashboard of a readable store with a medicine that has been used
C18_Witness ==
  /\ req.op = "dashboard"
  /\ disk # "unreadable"
  /\ \E i \in 1..Len(resp.view[1].dawa) :
       resp.view[1].dawa[i].jumlaMatumizi > 0 /\ resp.view[1].dawa[i].kilichobaki > 0

\* the stored usage events with their quantities: the lowdb iteration keeps
\* them in db.json, counted here in halves
StoredQuantities(f) ==
  IF variant = "lowdb"
  THEN {[whole |-> f.data.matumizi[i].kiasi % 2 = 0,
         positive |-> f.data.matumizi[i].kiasi > 0] :
          i \in 1..Len(f.data.matumizi)}
  ELSE {[whole |-> Field(Table(f, "MATUMIZI")[i], "kiasi") \notin {BlankNum, TextNum, NaN},
         positive |-> Field(Table(f, "MATUMIZI")[i], "kiasi") > 0] :
          i \in 1..Len(Table(f, "MATUMIZI"))}

\* the request asks to record a confirmed quantity that is not a number, is
\* zero or is negative
InvalidQuantity(r) ==
  IF variant = "lowdb"
  THEN r.imethibitishwa # "" /\ (Halves(r.kiasi) = NaN \/ Halves(r.kiasi) <= 0)
  ELSE \E i \in 1..Len(r.dawaList) :
         /\ r.dawaList[i].confirmed = "true"
         /\ (ParseInt(r.dawaList[i].kiasi) = NaN \/ ParseInt(r.dawaList[i].kiasi) <= 0)

\* C19: every stored usage event has an integer quantityUsed greater than 0;
\* a recordUsage request with a confirmed quantity that is not a number, is
\* zero or is negative is rejected as a whole and writes nothing.
C19_QuantityPositiveInteger ==
  [][/\ \A q \in StoredQuantities(file') : q.whole /\ q.positive
     /\ (req'.op = "recordUsage" /\ InvalidQuantity(req'))
          => (file' = file /\ resp'.kind \notin {"redirect", "pending"})]_vars

\* the endpoints that change a table
Mutating == {"addMedicine", "addUser", "restock", "transferUser", "recordUsage"}

\* C20: every request to a mutating endpoint ends with one response, the
\* redirect when the operation succeeded and otherwise a rendered error
\* view, the generic 500 view included.
C20_RespondsWithTheOutcome ==
  req.op \in Mutating =>
    /\ resp.kind \notin {"none", "pending", "started", "exit"}
    /\ resp.kind = "redirect" <=> resp.wrote = "ok"

\* C21: a storage operation that failed is reported once and is not attempted
\* again by the program: after a pass of initializeDatabase has failed, no
\* further pass begins.
C21_NoRetryAfterFailure ==
  [][low.failures > 0 => low'.attempts = low.attempts]_vars

\* C30: initializeDatabase of the lowdb iteration ends; it makes at most three
\* attempts, returns only a handle that holds the dawa, watumiaji and matumizi
\* collections, and throws only after its third failed attempt.
C30_InitTerminates ==
  /\ [](low.attempts <= 3)
  /\ [](low.pc = "returned" => low.data.kind = "data")
  /\ [](low.pc = "threw" => (low.failures = 3 /\ low.attempts = 3))
  /\ <>(low.pc \in {"returned", "threw"})

\* C22: deleting a user removes that user's row and nothing else: the usage
\* events, those of the deleted user included, the medicines and the clinics
\* are stored as before, and deleting an id that no user has fails with the
\* tables unchanged.
C22_DeleteKeepsUsage ==
  [][req'.op = "deleteUser" =>
       /\ file'.sheets["Matumizi"] = file.sheets["Matumizi"]
       /\ file'.sheets["Dawa"] = file.sheets["Dawa"]
       /\ file'.sheets["Clinics"] = file.sheets["Clinics"]
       /\ FindById(Table(file, "WATUMIAJI"), req'.userId) = 0
            => (file' = file /\ resp'.kind = "not_found")
       /\ resp'.wrote = "ok"
            => Table(file', "WATUMIAJI")
                 = WithoutRow(Table(file, "WATUMIAJI"),
                              FindById(Table(file, "WATUMIAJI"), req'.userId))]_vars

\* a user with recorded usage has been deleted
C22_Witness ==
  /\ req.op = "deleteUser"
  /\ resp.wrote = "ok"
  /\ FindById(Table(file, "WATUMIAJI"), req.userId) = 0
  /\ \E k \in 1..Len(Table(file, "MATUMIZI")) :
       Field(Table(file, "MATUMIZI")[k], "mtumiajiId") = req.userId

\* the stored users that at least one stored usage event references
ReferencedUsers(f) ==
  {i \in 1..Len(Table(f, "WATUMIAJI")) :
     \E k \in 1..Len(Table(f, "MATUMIZI")) :
       Field(Table(f, "MATUMIZI")[k], "mtumiajiId") = Field(Table(f, "WATUMIAJI")[i], "id")}

\* the stored users assigned to the clinic
AssignedTo(f, c) ==
  {i \in 1..Len(Table(f, "WATUMIAJI")) : Field(Table(f, "WATUMIAJI")[i], "clinicId") = c}

\* the clinics that have a user assigned
ClinicsWithUsers(f) ==
  {Field(Table(f, "WATUMIAJI")[i], "clinicId") : i \in 1..Len(Table(f, "WATUMIAJI"))} \ {""}

\* C23: in the clinic statistics the active users are the users that a stored
\* usage event references, active and inactive users add up to the stored
\* users, and every clinic with a user assigned has a summary whose totalUsers
\* is the number of its users and is the sum of its active and inactive users.
C23_ClinicStatistics ==
  req.op = "adminStatistics" =>
    LET stats == resp.view[1]
    IN /\ stats.activeUsers = Cardinality(ReferencedUsers(file))
       /\ stats.totalUsers = Len(Table(file, "WATUMIAJI"))
       /\ stats.activeUsers + stats.inactiveUsers = stats.totalUsers
       /\ \A c \in ClinicsWithUsers(file) :
            /\ c \in DOMAIN stats.clinicStats
            /\ stats.clinicStats[c].totalUsers = Cardinality(AssignedTo(file, c))
            /\ stats.clinicStats[c].activeUsers + stats.clinicStats[c].inactiveUsers
                 = stats.clinicStats[c].totalUsers

\* C26: the remaining value of a medicine in the admin statistics, in the
\* ranking and in the report of the selected medicine, is its quantityOnHand
\* minus the sum of its recorded usage, as on the dashboard; the ranking has
\* at most five medicines in non-increasing order of total usage.
C26_AdminRemaining ==
  req.op = "adminStatistics" =>
    LET stats == resp.view[1]
        ranking == stats.mostConsumedMedicines
        dashboard == GetDashboard(variant, disk, file).resp.view[1].dawa
    IN /\ Len(ranking) <= 5
       /\ \A i \in 1..Len(ranking) :
            /\ i < Len(ranking) => ranking[i].totalUsed >= ranking[i + 1].totalUsed
            /\ ranking[i].remaining
                 = OnHand(file, ranking[i].id) - UsedOf(file, ranking[i].id)
            /\ \A j \in 1..Len(dashboard) :
                 dashboard[j].id = ranking[i].id
                   => dashboard[j].kilichobaki = ranking[i].remaining
       /\ \A i \in 1..Len(stats.selectedMedicine) :
            stats.selectedMedicine[i].remaining
              = OnHand(file, req.selectedMedicine) - UsedOf(file, req.selectedMedicine)

\* C24: when initializeDatabase has returned, every declared table is in the
\* workbook and the Clinics table has rows: the four default clinics when it
\* had none before, and the rows it had before otherwise.
C24_InitSeedsClinics ==
  [][(req'.op = "init" /\ resp'.kind = "started") =>
       /\ file'.exists
       /\ \A k \in SheetKeys : SHEETS(variant)[k].name \in DOMAIN file'.sheets
       /\ Table(file', "CLINICS") # <<>>
       /\ IF Table(file, "CLINICS") = <<>>
          THEN Table(file', "CLINICS") = defaultClinics
          ELSE Table(file', "CLINICS") = Table(file, "CLINICS")]_vars

\* a start has kept the clinics the workbook already had
C24_Witness ==
  /\ req.op = "init"
  /\ resp.kind = "started"
  /\ Table(file, "CLINICS") = ownClinics

\* a request to record usage that was confirmed and answered with success
LowUsageSucceeded(p) ==
  /\ "dawaId" \in DOMAIN low.calls[p].form
  /\ low.calls[p].form.imethibitishwa # ""
  /\ low.calls[p].pc = "done"
  /\ low.calls[p].kind = "redirect"

\* quantityOnHand, in halves, of the stored medicine with this id
LowOnHand(dawaId) ==
  LET hits == {i \in 1..Len(file.data.dawa) : file.data.dawa[i].id = dawaId}
  IN IF hits = {} THEN 0 ELSE 2 * file.data.dawa[CHOOSE i \in hits : TRUE].kiasi

\* the store never records more usage of a medicine than its quantityOnHand
LowNoOverdraw ==
  \A i \in 1..Len(file.data.dawa) :
    LowUsedAmount(file.data.matumizi, file.data.dawa[i].id) <= 2 * file.data.dawa[i].kiasi

\* C25: two requests to record usage of one medicine that are in flight
\* together, each reading the store before the write of the other has landed,
\* never leave more usage recorded than the medicine's quantityOnHand, and
\* are not both answered with success when their quantities together exceed
\* the stock that remained.
C25_ConcurrentUsageWithinStock ==
  /\ LowNoOverdraw
  /\ \A p, q \in LowProcs :
       (/\ p # q
        /\ LowUsageSucceeded(p)
        /\ LowUsageSucceeded(q)
        /\ low.calls[p].form.dawaId = low.calls[q].form.dawaId
        /\ low.calls[p].seen = low.calls[q].seen)
       => Halves(low.calls[p].form.kiasi) + Halves(low.calls[q].form.kiasi)
            <= LowOnHand(low.calls[p].form.dawaId)
                 - LowUsedAmount(low.calls[p].seen, low.calls[p].form.dawaId)

\* C27: a restock of a stored medicine by a positive amount raises the
\* quantityOnHand of that medicine by the amount and leaves the other
\* medicines, the users, the usage events and the clinics as they were; a
\* restock of an unknown medicine, or by an amount that is zero, negative or
\* not a number, is answered with an error and changes nothing.
C27_RestockFrame ==
  [][req'.op = "restock" =>
       LET before == Table(file, "DAWA")
           after == Table(file', "DAWA")
           index == FindById(before, req'.dawaId)
       IN /\ \A k \in {"WATUMIAJI", "MATUMIZI", "CLINICS"} : Table(file', k) = Table(file, k)
          /\ IF index # 0 /\ JsNumber(req'.kiasi) > 0
             THEN /\ resp'.kind = "redirect"
                  /\ Len(after) = Len(before)
                  /\ \A i \in 1..Len(before) : i # index => after[i] = before[i]
                  /\ \A k \in {"id", "jina", "aina"} :
                       Field(after[index], k) = Field(before[index], k)
                  /\ OnHand(file', req'.dawaId) = OnHand(file, req'.dawaId) + JsNumber(req'.kiasi)
             ELSE /\ resp'.kind \in {"invalid", "not_found"}
                  /\ file' = file]_vars

\* the second of two medicines has been restocked
C27_Witness ==
  /\ req.op = "restock"
  /\ req.dawaId = "m2"
  /\ resp.kind = "redirect"
  /\ OnHand(file, "m2") = 3
  /\ OnHand(file, "m1") = 2

\* the clinic of the stored user with this id, "" when there is none
ClinicOfUser(f, mtumiajiId) ==
  LET index == FindById(Table(f, "WATUMIAJI"), mtumiajiId)
  IN IF index = 0 THEN "" ELSE Field(Table(f, "WATUMIAJI")[index], "clinicId")

\* C28: in the Kisiwani iteration a request to record usage succeeds only for
\* a user whose clinic is C001 at that moment; for a user of another clinic
\* it is rejected and nothing is written; every stored usage event carries
\* the clinic C001.
C28_OnlyKisiwaniUsage ==
  /\ [](\A i \in 1..Len(Table(file, "MATUMIZI")) :
          Field(Table(file, "MATUMIZI")[i], "clinicId") = "C001")
  /\ [][req'.op = "recordUsage" =>
          /\ resp'.kind = "redirect" => ClinicOfUser(file, req'.mtumiajiId) = "C001"
          /\ ClinicOfUser(file, req'.mtumiajiId) # "C001"
               => (file' = file /\ resp'.wrote = "none" /\ resp'.kind # "redirect")
          /\ \A i \in 1..Len(resp'.appended) : resp'.appended[i].clinicId = "C001"]_vars

\* usage of a user who was moved out of Kisiwani has been refused while an
\* earlier event of that user is stored
C28_Witness ==
  /\ req.op = "recordUsage"
  /\ resp.kind = "not_kisiwani"
  /\ ClinicOfUser(file, req.mtumiajiId) = "C002"
  /\ \E i \in 1..Len(Table(file, "MATUMIZI")) :
       Field(Table(file, "MATUMIZI")[i], "mtumiajiId") = req.mtumiajiId

\* the users GET /admin/users lists for a session
Listed(f, session) == GetAdminUsers(variant, "ok", f, session).resp.view[1].users

====
